---- MODULE Spec2Model ----
(***************************************************************************)
(* HTTP Header Modifier: the popup's save path (validateConfig,            *)
(* updateRules, syncExpiryAlarm, saveConfig) and the service worker's      *)
(* expiry handlers, over chrome.storage.local, the declarativeNetRequest   *)
(* dynamic rule table and the chrome.alarms one-shot alarm.                *)
(*                                                                         *)
(* JavaScript strings are sequences of one-character strings, so that      *)
(* trim, toLowerCase, split, the regular expressions and JSON.stringify    *)
(* are computed character by character.                                    *)
(***************************************************************************)
EXTENDS Integers, Sequences, FiniteSets, TLC

(* ------------------------------------------------------------------ *)
(* Characters and strings                                              *)
(* ------------------------------------------------------------------ *)

Digits == {"0", "1", "2", "3", "4", "5", "6", "7", "8", "9"}

LowerLetters ==
  {"a", "b", "c", "d", "e", "f", "g", "h", "i", "j", "k", "l", "m",
   "n", "o", "p", "q", "r", "s", "t", "u", "v", "w", "x", "y", "z"}

UpperLetters ==
  {"A", "B", "C", "D", "E", "F", "G", "H", "I", "J", "K", "L", "M",
   "N", "O", "P", "Q", "R", "S", "T", "U", "V", "W", "X", "Y", "Z"}

\* String.prototype.toLowerCase on one character
LowerOf(c) ==
  CASE c = "A" -> "a" [] c = "B" -> "b" [] c = "C" -> "c" [] c = "D" -> "d"
    [] c = "E" -> "e" [] c = "F" -> "f" [] c = "G" -> "g" [] c = "H" -> "h"
    [] c = "I" -> "i" [] c = "J" -> "j" [] c = "K" -> "k" [] c = "L" -> "l"
    [] c = "M" -> "m" [] c = "N" -> "n" [] c = "O" -> "o" [] c = "P" -> "p"
    [] c = "Q" -> "q" [] c = "R" -> "r" [] c = "S" -> "s" [] c = "T" -> "t"
    [] c = "U" -> "u" [] c = "V" -> "v" [] c = "W" -> "w" [] c = "X" -> "x"
    [] c = "Y" -> "y" [] c = "Z" -> "z" [] OTHER -> c

ToLowerCase(s) == [i \in 1..Len(s) |-> LowerOf(s[i])]

\* the white space String.prototype.trim removes (the part that can be typed)
WhiteSpace == {" ", "\t", "\n", "\r"}

RECURSIVE TrimStart(_)
TrimStart(s) ==
  IF s # <<>> /\ Head(s) \in WhiteSpace THEN TrimStart(Tail(s)) ELSE s

RECURSIVE TrimEnd(_)
TrimEnd(s) ==
  IF s # <<>> /\ s[Len(s)] \in WhiteSpace
    THEN TrimEnd(SubSeq(s, 1, Len(s) - 1))
    ELSE s

Trim(s) == TrimEnd(TrimStart(s))

\* String.prototype.split on a set of one-character separators
RECURSIVE SplitAcc(_, _, _)
SplitAcc(s, seps, cur) ==
  IF s = <<>> THEN <<cur>>
  ELSE IF Head(s) \in seps
    THEN <<cur>> \o SplitAcc(Tail(s), seps, <<>>)
    ELSE SplitAcc(Tail(s), seps, Append(cur, Head(s)))

Split(s, seps) == SplitAcc(s, seps, <<>>)

\* Array.prototype.join
RECURSIVE Join(_, _)
Join(parts, sep) ==
  IF parts = <<>> THEN <<>>
  ELSE IF Len(parts) = 1 THEN parts[1]
  ELSE parts[1] \o sep \o Join(Tail(parts), sep)

Range(seq) == {seq[i] : i \in DOMAIN seq}

\* Array.from(new Set(parts)): first occurrences, in insertion order
RECURSIVE UniqueInOrder(_, _)
UniqueInOrder(seq, seen) ==
  IF seq = <<>> THEN <<>>
  ELSE IF Head(seq) \in seen
    THEN UniqueInOrder(Tail(seq), seen)
    ELSE <<Head(seq)>> \o UniqueInOrder(Tail(seq), seen \cup {Head(seq)})


(* ------------------------------------------------------------------ *)
(* Regular expressions of the validator                                *)
(* ------------------------------------------------------------------ *)

AlphaNum == Digits \cup LowerLetters \cup UpperLetters

\* the grave accent, which a TLA+ string literal cannot hold
GraveAccent == "GRAVE"

\* the character class of HEADER_NAME_RE
TokenChars ==
  {"!", "#", "$", "%", "&", "'", "*", "+", ".", "^", "_", GraveAccent, "|",
   "~", "-"} \cup AlphaNum

\* any non-empty key taken for a token
HEADER_NAME_RE_AnyText(key) == Len(key) > 0

\* HEADER_NAME_RE.test(key): one or more token characters
HEADER_NAME_RE(key) == key # <<>> /\ \A i \in DOMAIN key : key[i] \in TokenChars

\* [a-z0-9](?:[a-z0-9-]{0,61}[a-z0-9])?   (case-insensitive)
IsHostLabel(p) ==
  /\ Len(p) >= 1
  /\ Len(p) <= 63
  /\ p[1] \in AlphaNum
  /\ p[Len(p)] \in AlphaNum
  /\ \A i \in DOMAIN p : p[i] \in AlphaNum \cup {"-"}

\* [a-z]{2,63}   (case-insensitive)
IsTopLevelLabel(p) ==
  /\ Len(p) >= 2
  /\ Len(p) <= 63
  /\ \A i \in DOMAIN p : p[i] \in LowerLetters \cup UpperLetters

\* the wildcard prefix left in place
stripWildcardPrefixKeeping(domain) == domain

\* domain.replace(/^\*\./, "")
stripWildcardPrefix(domain) ==
  IF Len(domain) >= 2 /\ domain[1] = "*" /\ domain[2] = "."
    THEN SubSeq(domain, 3, Len(domain))
    ELSE domain

\* HOST_RE.test(domain): optional "*.", one or more labels each followed by a
\* dot, then a top-level label of letters
HOST_RE(domain) ==
  LET wild == Len(domain) >= 2 /\ domain[1] = "*" /\ domain[2] = "."
      parts == Split(IF wild THEN SubSeq(domain, 3, Len(domain)) ELSE domain,
                     {"."})
      n == Len(parts)
  IN /\ n >= 2
     /\ \A i \in 1..(n - 1) : IsHostLabel(parts[i])
     /\ IsTopLevelLabel(parts[n])

\* 25[0-5] | 2[0-4]\d | 1\d\d | [1-9]?\d
IsOctet(p) ==
  /\ p # <<>>
  /\ \A i \in DOMAIN p : p[i] \in Digits
  /\ \/ Len(p) = 1
     \/ Len(p) = 2 /\ p[1] # "0"
     \/ Len(p) = 3 /\ p[1] = "1"
     \/ Len(p) = 3 /\ p[1] = "2" /\ p[2] \in {"0", "1", "2", "3", "4"}
     \/ Len(p) = 3 /\ p[1] = "2" /\ p[2] = "5"
          /\ p[3] \in {"0", "1", "2", "3", "4", "5"}

\* IPV4_RE.test(domain): four octets separated by dots
IPV4_RE(domain) ==
  LET parts == Split(domain, {"."})
  IN Len(parts) = 4 /\ \A i \in 1..4 : IsOctet(parts[i])

\* the characters escapeRegex prefixes with a backslash
RegexSpecial ==
  {".", "*", "+", "?", "^", "$", "{", "}", "(", ")", "|", "[", "]", "\\"}

\* the host inserted into the pattern as it is
escapeRegexIdentity(input) == input

RECURSIVE escapeRegex(_)
escapeRegex(input) ==
  IF input = <<>> THEN <<>>
  ELSE (IF Head(input) \in RegexSpecial
          THEN <<"\\", Head(input)>>
          ELSE <<Head(input)>>) \o escapeRegex(Tail(input))

LOCALHOST == <<"l", "o", "c", "a", "l", "h", "o", "s", "t">>

(* ------------------------------------------------------------------ *)
(* Config validator                                                     *)
(* ------------------------------------------------------------------ *)

\* the tokens trimmed but left in the case they were typed in
parseDomainsCaseSensitive(value) ==
  LET parts == Split(value, {"\n", ","})
      norm == [i \in 1..Len(parts) |-> Trim(parts[i])]
      kept == SelectSeq(norm, LAMBDA item : Len(item) > 0)
  IN UniqueInOrder(kept, {})

\* value.split(/[\n,]/).map(trim, lower).filter(nonempty), then Set order
parseDomains(value) ==
  LET parts == Split(value, {"\n", ","})
      norm == [i \in 1..Len(parts) |-> ToLowerCase(Trim(parts[i]))]
      kept == SelectSeq(norm, LAMBDA item : Len(item) > 0)
  IN UniqueInOrder(kept, {})

isValidDomain(domain) ==
  IF domain = LOCALHOST THEN TRUE
  ELSE IF IPV4_RE(domain) THEN TRUE
  ELSE HOST_RE(domain)

\* blank rows dropped but the fields of the others left untrimmed
normalizeHeadersUntrimmed(rawHeaders) ==
  SelectSeq(rawHeaders,
    LAMBDA header : Trim(header.key) # <<>> \/ Trim(header.value) # <<>>)

normalizeHeaders(rawHeaders) ==
  LET kept == SelectSeq(rawHeaders,
                LAMBDA header : Trim(header.key) # <<>> \/ Trim(header.value) # <<>>)
  IN [i \in 1..Len(kept) |->
        [key |-> Trim(kept[i].key), value |-> Trim(kept[i].value)]]

DigitValue(c) ==
  CASE c = "0" -> 0 [] c = "1" -> 1 [] c = "2" -> 2 [] c = "3" -> 3
    [] c = "4" -> 4 [] c = "5" -> 5 [] c = "6" -> 6 [] c = "7" -> 7
    [] c = "8" -> 8 [] c = "9" -> 9

\* the longest prefix of decimal digits
RECURSIVE DigitPrefix(_)
DigitPrefix(s) ==
  IF s # <<>> /\ Head(s) \in Digits
    THEN <<Head(s)>> \o DigitPrefix(Tail(s))
    ELSE <<>>

RECURSIVE DecimalValue(_)
DecimalValue(ds) ==
  IF ds = <<>> THEN 0
  ELSE 10 * DecimalValue(SubSeq(ds, 1, Len(ds) - 1)) + DigitValue(ds[Len(ds)])

\* Number.parseInt(s, 10): optional sign, then the longest digit prefix;
\* NaN (isNaN = TRUE) when no digit follows.  Anything after the digits is
\* ignored.
parseInt10(s) ==
  LET t == TrimStart(s)
      signed == t # <<>> /\ Head(t) \in {"+", "-"}
      body == IF signed THEN Tail(t) ELSE t
      ds == DigitPrefix(body)
  IN IF ds = <<>>
       THEN [isNaN |-> TRUE, n |-> 0]
       ELSE [isNaN |-> FALSE,
             n |-> IF signed /\ Head(t) = "-"
                     THEN 0 - DecimalValue(ds)
                     ELSE DecimalValue(ds)]

MAX_TEMPORARY_MINUTES == 1440

\* returns [isNull, n]: isNull stands for the null the code returns
parseTemporaryMinutes(value) ==
  LET trimmed == Trim(value)
      parsed == parseInt10(trimmed)
  IN IF trimmed = <<>> THEN [isNull |-> FALSE, n |-> 0]
     ELSE IF parsed.isNaN \/ parsed.n < 0 \/ parsed.n > MAX_TEMPORARY_MINUTES
       THEN [isNull |-> TRUE, n |-> 0]
       ELSE [isNull |-> FALSE, n |-> parsed.n]

HasNewline(value) == \E i \in DOMAIN value : value[i] \in {"\r", "\n"}

NoError == <<>>

\* the header loop with keys compared as typed
RECURSIVE HeaderLoopErrorCaseSensitive(_, _)
HeaderLoopErrorCaseSensitive(hs, keySet) ==
  IF hs = <<>> THEN NoError
  ELSE LET header == Head(hs)
       IN IF header.key = <<>> \/ header.value = <<>>
            THEN <<"All non-empty headers must include both key and value.">>
          ELSE IF ~HEADER_NAME_RE(header.key)
            THEN <<"Invalid header key: ">> \o header.key
          ELSE IF HasNewline(header.value)
            THEN <<"Invalid header value for ">> \o header.key
                   \o <<": newline characters are not allowed.">>
          ELSE IF header.key \in keySet
            THEN <<"Duplicate header key: ">> \o header.key
          ELSE HeaderLoopErrorCaseSensitive(Tail(hs), keySet \cup {header.key})

\* the header loop of validateConfig: the first error in row order, or NoError
RECURSIVE HeaderLoopError(_, _)
HeaderLoopError(hs, keySet) ==
  IF hs = <<>> THEN NoError
  ELSE LET header == Head(hs)
           normalizedKey == ToLowerCase(header.key)
       IN IF header.key = <<>> \/ header.value = <<>>
            THEN <<"All non-empty headers must include both key and value.">>
          ELSE IF ~HEADER_NAME_RE(header.key)
            THEN <<"Invalid header key: ">> \o header.key
          ELSE IF HasNewline(header.value)
            THEN <<"Invalid header value for ">> \o header.key
                   \o <<": newline characters are not allowed.">>
          ELSE IF normalizedKey \in keySet
            THEN <<"Duplicate header key: ">> \o header.key
          ELSE HeaderLoopError(Tail(hs), keySet \cup {normalizedKey})

\* the domain loop of validateConfig
RECURSIVE DomainLoopError(_, _)
DomainLoopError(ds, mode) ==
  IF ds = <<>> THEN NoError
  ELSE LET domain == Head(ds)
       IN IF ~isValidDomain(domain)
            THEN <<"Invalid domain pattern: ">> \o domain
          ELSE IF mode = "subdomains_only"
                  /\ (domain = LOCALHOST \/ IPV4_RE(domain))
            THEN <<"Subdomains-only mode does not support ">> \o domain \o <<".">>
          ELSE DomainLoopError(Tail(ds), mode)

\* validateConfig(rawHeaders, rawDomainInput), with the two signals it reads
\* (domainMatchMode(), temporaryMinutesInput()) as parameters
validateConfig(rawHeaders, rawDomainInput, mode, minutesInput) ==
  LET normalizedHeaders == normalizeHeaders(rawHeaders)
      headerError == HeaderLoopError(normalizedHeaders, {})
      domains == parseDomains(rawDomainInput)
      domainError == DomainLoopError(domains, mode)
      temporaryMinutes == parseTemporaryMinutes(minutesInput)
      fail(e) == [ok |-> FALSE, error |-> e, headers |-> <<>>,
                  domains |-> <<>>, temporaryMinutes |-> 0]
  IN IF headerError # NoError THEN fail(headerError)
     ELSE IF domainError # NoError THEN fail(domainError)
     ELSE IF temporaryMinutes.isNull
       THEN fail(<<"Temporary minutes must be an integer between 0 and 1440.">>)
     ELSE [ok |-> TRUE, error |-> NoError, headers |-> normalizedHeaders,
           domains |-> domains, temporaryMinutes |-> temporaryMinutes.n]


(* ------------------------------------------------------------------ *)
(* Condition compiler and rule compiler                                 *)
(* ------------------------------------------------------------------ *)

\* Object.values(chrome.declarativeNetRequest.ResourceType)
ResourceTypeValues ==
  <<"main_frame", "sub_frame", "stylesheet", "script", "image", "font",
    "object", "xmlhttprequest", "ping", "csp_report", "media", "websocket",
    "other">>

MODIFY_HEADERS == "modifyHeaders"
SET == "set"

\* a RuleCondition: filterKey is the one of urlFilter / regexFilter it carries
UrlFilterCondition(filter) ==
  [filterKey |-> "urlFilter", filter |-> filter,
   resourceTypes |-> ResourceTypeValues]

RegexFilterCondition(filter) ==
  [filterKey |-> "regexFilter", filter |-> filter,
   resourceTypes |-> ResourceTypeValues]

\* the condition of the single rule compiled for an empty domain list
GlobalCondition == UrlFilterCondition(<<"*">>)

\* "^https?:\/\/" and "(?::\d+)?\/" as the template literals spell them
RegexSchemePrefix ==
  <<"^", "h", "t", "t", "p", "s", "?", ":", "\\", "/", "\\", "/">>

RegexPortAndSlash ==
  <<"(", "?", ":", ":", "\\", "d", "+", ")", "?", "\\", "/">>

\* no label required before the host
RegexSubdomainLabelsAbsent == <<>>

RegexSubdomainLabels ==
  <<"(", "?", ":", "[", "^", ".", "/", "]", "+", "\\", ".", ")", "+">>

\* every domain compiled to the condition that matches all URLs
buildConditionGlobal(domain, mode) == GlobalCondition

buildCondition(domain, mode) ==
  LET normalizedDomain == stripWildcardPrefix(domain)
      escapedDomain == escapeRegex(normalizedDomain)
  IN IF mode = "include_subdomains"
       THEN UrlFilterCondition(<<"|", "|">> \o normalizedDomain \o <<"/">>)
     ELSE IF mode = "exact"
       THEN RegexFilterCondition(
              RegexSchemePrefix \o escapedDomain \o RegexPortAndSlash)
     ELSE RegexFilterCondition(
            RegexSchemePrefix \o RegexSubdomainLabels \o escapedDomain
              \o RegexPortAndSlash)

RULE_PRIORITY == 1

buildRule(id, validHeaders, condition) ==
  [id |-> id,
   priority |-> RULE_PRIORITY,
   action |->
     [type |-> MODIFY_HEADERS,
      requestHeaders |->
        [i \in 1..Len(validHeaders) |->
           [header |-> validHeaders[i].key,
            operation |-> SET,
            value |-> validHeaders[i].value]]],
   condition |-> condition]

\* ids counted from 0, as the index of Array.prototype.map is
DesiredRulesZeroBased(validHeaders, ruleDomains, isEnabled, mode) ==
  IF ~isEnabled \/ Len(validHeaders) = 0 THEN <<>>
  ELSE IF Len(ruleDomains) = 0
    THEN <<buildRule(1, validHeaders, GlobalCondition)>>
    ELSE [index \in 1..Len(ruleDomains) |->
            buildRule(index - 1, validHeaders,
                      buildCondition(ruleDomains[index], mode))]

\* the desiredRules expression of updateRules
DesiredRules(validHeaders, ruleDomains, isEnabled, mode) ==
  IF ~isEnabled \/ Len(validHeaders) = 0 THEN <<>>
  ELSE IF Len(ruleDomains) = 0
    THEN <<buildRule(1, validHeaders, GlobalCondition)>>
    ELSE [index \in 1..Len(ruleDomains) |->
            buildRule(index, validHeaders,
                      buildCondition(ruleDomains[index], mode))]

(* ------------------------------------------------------------------ *)
(* JSON.stringify of a rule                                             *)
(* ------------------------------------------------------------------ *)

\* the escapes JSON.stringify applies inside a string
JsonEscapeChar(c) ==
  CASE c = "\"" -> <<"\\", "\"">>
    [] c = "\\" -> <<"\\", "\\">>
    [] c = "\n" -> <<"\\", "n">>
    [] c = "\r" -> <<"\\", "r">>
    [] c = "\t" -> <<"\\", "t">>
    [] OTHER -> <<c>>

RECURSIVE JsonEscape(_)
JsonEscape(s) ==
  IF s = <<>> THEN <<>> ELSE JsonEscapeChar(Head(s)) \o JsonEscape(Tail(s))

JsonString(s) == <<"\"">> \o JsonEscape(s) \o <<"\"">>

\* a string of the API's enumerations (no character needs an escape)
JsonEnum(e) == <<"\"", e, "\"">>

RECURSIVE JsonArray(_)
JsonArray(items) ==
  IF items = <<>> THEN <<>>
  ELSE IF Len(items) = 1 THEN items[1]
  ELSE items[1] \o <<",">> \o JsonArray(Tail(items))

JsonHeaderAction(h) ==
  <<"{", "header:">> \o JsonString(h.header)
    \o <<",", "operation:">> \o JsonEnum(h.operation)
    \o <<",", "value:">> \o JsonString(h.value) \o <<"}">>

JsonAction(action) ==
  <<"{", "type:">> \o JsonEnum(action.type)
    \o <<",", "requestHeaders:", "[">>
    \o JsonArray([i \in 1..Len(action.requestHeaders) |->
                    JsonHeaderAction(action.requestHeaders[i])])
    \o <<"]", "}">>

JsonCondition(condition) ==
  <<"{", condition.filterKey, ":">> \o JsonString(condition.filter)
    \o <<",", "resourceTypes:", "[">>
    \o JsonArray([i \in 1..Len(condition.resourceTypes) |->
                    JsonEnum(condition.resourceTypes[i])])
    \o <<"]", "}">>

\* JSON.stringify({priority, action, condition}): the id is not serialized
serializeRule(rule) ==
  <<"{", "priority:", ToString(rule.priority), ",", "action:">>
    \o JsonAction(rule.action)
    \o <<",", "condition:">> \o JsonCondition(rule.condition) \o <<"}">>

(* ------------------------------------------------------------------ *)
(* Rule reconciler                                                      *)
(* ------------------------------------------------------------------ *)

\* new Map(rules.map(rule => [rule.id, rule])): a later entry with the same
\* id replaces an earlier one
MapHas(rules, id) == \E i \in DOMAIN rules : rules[i].id = id

MapGet(rules, id) ==
  LET last == CHOOSE i \in DOMAIN rules :
                /\ rules[i].id = id
                /\ \A j \in DOMAIN rules : rules[j].id = id => j <= i
  IN rules[last]

\* a diff that looks at the ids only
DiffersFromById(rule, others) == ~MapHas(others, rule.id)

\* the predicate of both filters: no counterpart, or a different serialization
DiffersFrom(rule, others) ==
  \/ ~MapHas(others, rule.id)
  \/ serializeRule(MapGet(others, rule.id)) # serializeRule(rule)

\* every installed id is removed, whatever is desired
RemoveEveryRuleId(existingRules, desiredRules) ==
  [i \in 1..Len(existingRules) |-> existingRules[i].id]

RemoveRuleIds(existingRules, desiredRules) ==
  LET stale == SelectSeq(existingRules,
                 LAMBDA rule : DiffersFrom(rule, desiredRules))
  IN [i \in 1..Len(stale) |-> stale[i].id]

\* only the rules whose id is not installed are added
AddRulesAbsentOnly(existingRules, desiredRules) ==
  SelectSeq(desiredRules, LAMBDA rule : ~MapHas(existingRules, rule.id))

AddRules(existingRules, desiredRules) ==
  SelectSeq(desiredRules, LAMBDA rule : DiffersFrom(rule, existingRules))

\* the early return left out
NeedsUpdateAlways(removeRuleIds, addRules) == TRUE

\* whether updateRules reaches its updateDynamicRules call
NeedsUpdate(removeRuleIds, addRules) ==
  ~(Len(removeRuleIds) = 0 /\ Len(addRules) = 0)


(* ------------------------------------------------------------------ *)
(* External services                                                    *)
(* ------------------------------------------------------------------ *)

\* temporaryUntil = null.  Every test the code applies to the field
\* (truthiness, typeof number && > Date.now(), <= 0) treats null and 0 alike.
NullInstant == 0

MS_PER_MINUTE == 60000

StorageKeys ==
  {"headers", "enabled", "domains", "domainMatchMode", "temporaryUntil"}

\* every stored value has the type this program writes
WellTyped == [k \in StorageKeys |-> "no"]

\* chrome.storage.local before anything was written: keys holds the keys
\* that are present; an absent key reads as undefined (falsy).  mistyped
\* tells of each key whether its value is of another type than this
\* program writes: "no", "null" (the value null) or "string" (a non-empty
\* string where no string is expected); the field of such a key is not
\* read.  A string that is no match mode is held in domainMatchMode itself.
EmptyStorage ==
  [keys |-> {}, headers |-> <<>>, enabled |-> FALSE, domains |-> <<>>,
   domainMatchMode |-> "undefined", temporaryUntil |-> NullInstant,
   mistyped |-> WellTyped]

\* the key holds a value of the type this program writes
Holds(result, k) == k \in result.keys /\ result.mistyped[k] = "no"

\* the whole area replaced by the payload
StorageWriteReplacing(st, payload) == payload

\* chrome.storage.local.set: the payload's keys are written, the others kept
StorageWrite(st, payload) ==
  [keys |-> st.keys \cup payload.keys,
   headers |-> IF "headers" \in payload.keys THEN payload.headers ELSE st.headers,
   enabled |-> IF "enabled" \in payload.keys THEN payload.enabled ELSE st.enabled,
   domains |-> IF "domains" \in payload.keys THEN payload.domains ELSE st.domains,
   domainMatchMode |-> IF "domainMatchMode" \in payload.keys
                         THEN payload.domainMatchMode ELSE st.domainMatchMode,
   temporaryUntil |-> IF "temporaryUntil" \in payload.keys
                        THEN payload.temporaryUntil ELSE st.temporaryUntil,
   mistyped |-> [k \in StorageKeys |->
                   IF k \in payload.keys THEN payload.mistyped[k]
                                         ELSE st.mistyped[k]]]

RuleIds(rules) == {rules[i].id : i \in DOMAIN rules}

\* updateDynamicRules is rejected when an added id is still installed after
\* the removal, or is added twice
DeltaCollides(table, removeRuleIds, addRules) ==
  \/ \E i \in DOMAIN addRules :
       addRules[i].id \in RuleIds(table) \ Range(removeRuleIds)
  \/ \E i, j \in DOMAIN addRules : i # j /\ addRules[i].id = addRules[j].id

\* chrome.declarativeNetRequest.updateDynamicRules: one atomic replace
ApplyDelta(table, removeRuleIds, addRules) ==
  SelectSeq(table, LAMBDA rule : rule.id \notin Range(removeRuleIds))
    \o addRules

\* chrome.runtime.lastError.message of a failed service call
LastErrorMessage == <<"service unavailable">>

ALARM_NAME == "header-modifier-expiry"


(* ------------------------------------------------------------------ *)
(* Bounds and the inputs the user can type                              *)
(* ------------------------------------------------------------------ *)

\* the clock runs from MS_PER_MINUTE to MaxClock * MS_PER_MINUTE
MaxClock == 3

MatchModes == {"exact", "include_subdomains", "subdomains_only"}

Header(k, v) == [key |-> k, value |-> v]

DomainA == <<"a", ".", "i", "o">>
DomainB == <<"b", ".", "i", "o">>

HeaderBlank == <<Header(<<>>, <<>>)>>
HeaderA == <<Header(<<"X", "-", "A">>, <<"1">>)>>
\* surrounding blanks, and a second row that is blank after trimming
HeaderB == <<Header(<<" ", "X", "-", "B">>, <<"2", " ">>), Header(<<>>, <<" ">>)>>
\* two keys that differ only in case
HeaderDup ==
  <<Header(<<"X", "-", "A">>, <<"1">>), Header(<<"x", "-", "a">>, <<"2">>)>>
\* a key without a value
HeaderHalf == <<Header(<<"X", "-", "A">>, <<>>)>>

\* the same two domains in both orders, the second text with a repetition in
\* upper case and a trailing separator
DomainsAB == DomainA \o <<"\n">> \o DomainB
DomainsBA == DomainB \o <<",", " ", "A", ".", "I", "O", ",">> \o DomainB
\* a host without a top-level label
DomainBad == <<"a", "_", "b">>

FormInput(h, e, d, m, t) ==
  [headers |-> h, enabled |-> e, domainInput |-> d, domainMatchMode |-> m,
   temporaryMinutesInput |-> t]

\* forms that validate: two domains in either order, no domain, one domain;
\* no header left after trimming; disabled; each match mode; expiry minutes
\* blank, zero and positive
ValidForms ==
  { FormInput(HeaderA, TRUE, DomainsAB, "include_subdomains", <<"1">>),
    FormInput(HeaderA, TRUE, DomainsBA, "include_subdomains", <<"1">>),
    FormInput(HeaderA, TRUE, <<>>, "include_subdomains", <<>>),
    FormInput(HeaderBlank, TRUE, DomainsAB, "include_subdomains", <<"2">>),
    FormInput(HeaderA, FALSE, DomainsAB, "include_subdomains", <<"1">>),
    FormInput(HeaderB, TRUE, LOCALHOST, "exact", <<" ", "0">>),
    FormInput(HeaderA, TRUE, DomainsAB, "subdomains_only", <<>>) }

\* forms that fail validation, one for each error
InvalidForms ==
  { FormInput(HeaderHalf, TRUE, DomainA, "exact", <<"1">>),
    FormInput(HeaderDup, TRUE, DomainA, "exact", <<"1">>),
    FormInput(HeaderA, TRUE, DomainBad, "include_subdomains", <<"1">>),
    FormInput(HeaderA, TRUE, LOCALHOST, "subdomains_only", <<"1">>),
    FormInput(HeaderA, TRUE, DomainA, "include_subdomains",
              <<"2", "0", "0", "0">>) }

FormInputs == ValidForms \cup InvalidForms

(* ------------------------------------------------------------------ *)
(* State                                                                *)
(* ------------------------------------------------------------------ *)

VARIABLES
  headers,                \* signal headers()
  enabled,                \* signal enabled()
  domainInput,            \* signal domainInput()
  domainMatchMode,        \* signal domainMatchMode()
  temporaryMinutesInput,  \* signal temporaryMinutesInput()
  status,                 \* statusMsg() and statusType()
  storage,                \* chrome.storage.local
  dynamicRules,           \* the dynamic rule table, as getDynamicRules lists it
  alarm,                  \* the instant ALARM_NAME is armed for, or NullInstant
  now,                    \* Date.now()
  save,                   \* the saveConfig call: position and locals
  bg,                     \* the service worker's handler: position and locals
  lastSave,               \* what the last save that went through compiled
  recon,                  \* the last updateRules run on its own: inputs and delta
  session                 \* the popup page: DEFAULT_HEADERS as it now is, and
                          \* the last form operation

formVars ==
  <<headers, enabled, domainInput, domainMatchMode, temporaryMinutesInput>>

serviceVars == <<storage, dynamicRules, alarm>>

vars ==
  <<headers, enabled, domainInput, domainMatchMode, temporaryMinutesInput,
    status, storage, dynamicRules, alarm, now, save, bg, lastSave, recon,
    session>>

\* DEFAULT_HEADERS as the module creates it
DEFAULT_HEADERS == <<Header(<<>>, <<>>)>>

\* no document has been handed to importConfig
NoDocument == [kind |-> "none"]

\* A popup page just loaded.  defaultRow is the row object DEFAULT_HEADERS
\* holds, with the fields it has now; shared is the index at which the
\* headers signal holds that very object (0: nowhere); op, doc and fellBack
\* record the last form operation, the document it was given and whether it
\* set the signal to DEFAULT_HEADERS; file is the document exportConfig last
\* downloaded, as JSON.parse reads it, and exported the payload it held.
\* no configuration has been exported
NoExport ==
  [enabled |-> FALSE, headers |-> <<>>, domains |-> <<>>,
   domainMatchMode |-> "include_subdomains", temporaryMinutes |-> 0]

FreshSession ==
  [defaultRow |-> DEFAULT_HEADERS[1], shared |-> 1, op |-> "none",
   doc |-> NoDocument, fellBack |-> FALSE, file |-> NoDocument,
   exported |-> NoExport]

\* the rows of the signal are objects of their own (loaded from storage or
\* imported) and DEFAULT_HEADERS is untouched
LoadedSession == [FreshSession EXCEPT !.shared = 0]

Snapshot == [storage |-> storage, dynamicRules |-> dynamicRules, alarm |-> alarm]

NoCalls ==
  [storageSet |-> 0, getDynamicRules |-> 0, updateDynamicRules |-> 0,
   clearAlarm |-> 0, createAlarm |-> 0]

\* the configuration and the rules of the last save that went through,
\* while no other handler and no failed save has touched storage or rules
NoLastSave ==
  [clean |-> FALSE, validHeaders |-> <<>>, validDomains |-> <<>>,
   isEnabled |-> FALSE, mode |-> "include_subdomains", desiredRules |-> <<>>]

\* a saveConfig call that has not been made.  Besides the handler's locals
\* the record keeps what the call has done so far: the state it started
\* from (pre, prev), the service calls it issued (calls), the call that
\* failed (failedAt), the statuses it reported and the clock readings.
IdleSave ==
  [pc |-> "idle", outcome |-> "none",
   validHeaders |-> <<>>, validDomains |-> <<>>, temporaryMinutes |-> 0,
   temporaryUntil |-> NullInstant, startedAt |-> 0, syncedAt |-> 0,
   payload |-> EmptyStorage,
   isEnabled |-> FALSE, mode |-> "include_subdomains",
   compiled |-> FALSE,
   existingRules |-> <<>>, desiredRules |-> <<>>,
   removeRuleIds |-> <<>>, addRules |-> <<>>,
   pre |-> [storage |-> EmptyStorage, dynamicRules |-> <<>>,
            alarm |-> NullInstant],
   prev |-> NoLastSave,
   calls |-> NoCalls, failedAt |-> "none", statuses |-> <<>>]

\* a worker with no handler running.  Besides the handler's locals the
\* record keeps what the handler has done so far: the listener that started
\* it, the state it started from, the clock readings, what it read from
\* storage and decided, and the updateDynamicRules calls it issued.
IdleBg ==
  [pc |-> "idle", trigger |-> "none", outcome |-> "none",
   removeRuleIds |-> <<>>, payload |-> EmptyStorage,
   pre |-> [storage |-> EmptyStorage, dynamicRules |-> <<>>,
            alarm |-> NullInstant],
   startedAt |-> 0, readAt |-> 0, read |-> EmptyStorage,
   decision |-> "none", updateCalls |-> 0]

NoRecon ==
  [ran |-> FALSE, existingRules |-> <<>>, desiredRules |-> <<>>,
   removeRuleIds |-> <<>>, addRules |-> <<>>, called |-> FALSE]

SaveIdle == save.pc = "idle"

AllIdle == bg.pc = "idle" /\ SaveIdle

FormInit ==
  /\ headers = DEFAULT_HEADERS
  /\ enabled = TRUE
  /\ domainInput = <<>>
  /\ domainMatchMode = "include_subdomains"
  /\ temporaryMinutesInput = <<"0">>
  /\ status = [msg |-> <<>>, type |-> "success"]

Init ==
  /\ FormInit
  /\ storage = EmptyStorage
  /\ dynamicRules = <<>>
  /\ alarm = NullInstant
  /\ now = MS_PER_MINUTE
  /\ save = IdleSave
  /\ bg = IdleBg
  /\ lastSave = NoLastSave
  /\ recon = NoRecon
  /\ session = FreshSession

\* setStatus(msg, type)
Reported(msg, type) == [msg |-> msg, type |-> type]

\* the message of the failed call dropped
ErrorMessageGeneric(context) == <<"Unexpected save error.">>

ErrorMessage(context) == <<context, ": ">> \o LastErrorMessage

(* ------------------------------------------------------------------ *)
(* The clock                                                            *)
(* ------------------------------------------------------------------ *)

Tick ==
  /\ now < MaxClock * MS_PER_MINUTE
  /\ now' = now + MS_PER_MINUTE
  /\ UNCHANGED <<formVars, status, serviceVars, save, bg, lastSave, recon, session>>


(* ------------------------------------------------------------------ *)
(* saveConfig, one action per stretch between two awaits                *)
(* ------------------------------------------------------------------ *)

SavePayload(validHeaders, isEnabled, validDomains, mode, temporaryUntil) ==
  [keys |-> StorageKeys, headers |-> validHeaders, enabled |-> isEnabled,
   domains |-> validDomains, domainMatchMode |-> mode,
   temporaryUntil |-> temporaryUntil, mistyped |-> WellTyped]

\* minutes taken for seconds
ExpiryInstantInSeconds(isEnabled, temporaryMinutes, clock) ==
  IF isEnabled /\ temporaryMinutes > 0
    THEN clock + temporaryMinutes * 1000
    ELSE NullInstant

\* the instant computed for a disabled configuration too
ExpiryInstantWhateverEnabled(isEnabled, temporaryMinutes, clock) ==
  IF temporaryMinutes > 0
    THEN clock + temporaryMinutes * MS_PER_MINUTE
    ELSE NullInstant

\* Date.now() + temporaryMinutes * 60_000, or null
ExpiryInstant(isEnabled, temporaryMinutes, clock) ==
  IF isEnabled /\ temporaryMinutes > 0
    THEN clock + temporaryMinutes * MS_PER_MINUTE
    ELSE NullInstant

\* the enabled switch persisted before the form is validated
SaveConfigStartEager(h, e, d, m, t) ==
  /\ SaveIdle
  /\ headers' = h
  /\ session' = [session EXCEPT !.shared = 0]
  /\ enabled' = e
  /\ domainInput' = d
  /\ domainMatchMode' = m
  /\ temporaryMinutesInput' = t
  /\ storage' = StorageWrite(storage,
                  [EmptyStorage EXCEPT !.keys = {"enabled"}, !.enabled = e])
  /\ LET result == validateConfig(h, d, m, t)
         temporaryUntil == ExpiryInstant(e, result.temporaryMinutes, now)
     IN IF ~result.ok
          THEN /\ status' = Reported(result.error, "error")
               /\ save' = [IdleSave EXCEPT
                             !.pc = "done", !.outcome = "invalid",
                             !.startedAt = now, !.pre = Snapshot,
                             !.prev = lastSave,
                             !.calls = [NoCalls EXCEPT !.storageSet = 1],
                             !.statuses = <<Reported(result.error, "error")>>]
          ELSE /\ status' = status
               /\ save' = [IdleSave EXCEPT
                             !.pc = "storageSet", !.outcome = "running",
                             !.startedAt = now, !.pre = Snapshot,
                             !.prev = lastSave,
                             !.validHeaders = result.headers,
                             !.validDomains = result.domains,
                             !.temporaryMinutes = result.temporaryMinutes,
                             !.temporaryUntil = temporaryUntil,
                             !.payload = SavePayload(result.headers, e,
                                           result.domains, m, temporaryUntil),
                             !.calls = [NoCalls EXCEPT !.storageSet = 1]]
  /\ UNCHANGED <<dynamicRules, alarm, now, bg, lastSave, recon>>

\* The user leaves the form holding (h, e, d, m, t) and clicks Save & Apply:
\* saveConfig validates and either reports the error and returns, or computes
\* temporaryUntil and issues storageSet.
SaveConfigStart(h, e, d, m, t) ==
  /\ SaveIdle
  /\ headers' = h
  /\ session' = [session EXCEPT !.shared = 0]
  /\ enabled' = e
  /\ domainInput' = d
  /\ domainMatchMode' = m
  /\ temporaryMinutesInput' = t
  /\ LET result == validateConfig(h, d, m, t)
         temporaryUntil == ExpiryInstant(e, result.temporaryMinutes, now)
     IN IF ~result.ok
          THEN /\ status' = Reported(result.error, "error")
               /\ save' = [IdleSave EXCEPT
                             !.pc = "done", !.outcome = "invalid",
                             !.startedAt = now, !.pre = Snapshot,
                             !.prev = lastSave,
                             !.statuses = <<Reported(result.error, "error")>>]
          ELSE /\ status' = status
               /\ save' = [IdleSave EXCEPT
                             !.pc = "storageSet", !.outcome = "running",
                             !.startedAt = now, !.pre = Snapshot,
                             !.prev = lastSave,
                             !.validHeaders = result.headers,
                             !.validDomains = result.domains,
                             !.temporaryMinutes = result.temporaryMinutes,
                             !.temporaryUntil = temporaryUntil,
                             !.payload = SavePayload(result.headers, e,
                                           result.domains, m, temporaryUntil),
                             !.calls = [NoCalls EXCEPT !.storageSet = 1]]
  /\ UNCHANGED <<serviceVars, now, bg, lastSave, recon>>

\* storageSet resolves; the arguments of updateRules are read from the
\* signals and getDynamicRules is issued
StorageSetResolved ==
  /\ save.pc = "storageSet"
  /\ storage' = StorageWrite(storage, save.payload)
  /\ save' = [save EXCEPT !.pc = "getDynamicRules",
                          !.isEnabled = enabled, !.mode = domainMatchMode,
                          !.calls.getDynamicRules = 1]
  /\ UNCHANGED <<formVars, status, dynamicRules, alarm, now, bg, lastSave,
                 recon, session>>

\* getDynamicRules resolves: updateRules computes the delta and either
\* returns (syncExpiryAlarm then issues clearAlarm) or issues updateDynamicRules
GetDynamicRulesResolved ==
  /\ save.pc = "getDynamicRules"
  /\ LET existingRules == dynamicRules
         desiredRules == DesiredRules(save.validHeaders, save.validDomains,
                                      save.isEnabled, save.mode)
         removeRuleIds == RemoveRuleIds(existingRules, desiredRules)
         addRules == AddRules(existingRules, desiredRules)
         seen == [save EXCEPT !.compiled = TRUE,
                              !.existingRules = existingRules,
                              !.desiredRules = desiredRules,
                              !.removeRuleIds = removeRuleIds,
                              !.addRules = addRules]
     IN IF NeedsUpdate(removeRuleIds, addRules)
          THEN save' = [seen EXCEPT !.pc = "updateDynamicRules",
                                    !.calls.updateDynamicRules = 1]
          ELSE save' = [seen EXCEPT !.pc = "clearAlarm",
                                    !.calls.clearAlarm = 1]
  /\ UNCHANGED <<formVars, status, serviceVars, now, bg, lastSave, recon, session>>

\* updateDynamicRules resolves; syncExpiryAlarm issues clearAlarm
UpdateDynamicRulesResolved ==
  /\ save.pc = "updateDynamicRules"
  /\ ~DeltaCollides(dynamicRules, save.removeRuleIds, save.addRules)
  /\ dynamicRules' = ApplyDelta(dynamicRules, save.removeRuleIds, save.addRules)
  /\ save' = [save EXCEPT !.pc = "clearAlarm", !.calls.clearAlarm = 1]
  /\ UNCHANGED <<formVars, status, storage, alarm, now, bg, lastSave, recon, session>>

\* the test of syncExpiryAlarm
ShouldCreateAlarm(temporaryUntil, clock) ==
  temporaryUntil # NullInstant /\ temporaryUntil > clock

AppliedMessage(temporaryUntil, temporaryMinutes) ==
  IF temporaryUntil # NullInstant
    THEN <<"Changes applied. Auto-disable in ", ToString(temporaryMinutes),
           " minute(s).">>
    ELSE <<"Changes applied successfully.">>

\* an alarm that is cleared only when a new one replaces it
ClearAlarmResolvedKeeping ==
  /\ save.pc = "clearAlarm"
  /\ LET create == ShouldCreateAlarm(save.temporaryUntil, now)
         report == Reported(AppliedMessage(save.temporaryUntil,
                                           save.temporaryMinutes), "success")
     IN /\ alarm' = IF create THEN save.temporaryUntil ELSE alarm
        /\ status' = report
        /\ save' = [save EXCEPT
                      !.pc = "done", !.outcome = "applied",
                      !.syncedAt = now,
                      !.calls.createAlarm = IF create THEN 1 ELSE 0,
                      !.statuses = Append(@, report)]
  /\ lastSave' = [clean |-> TRUE, validHeaders |-> save.validHeaders,
                  validDomains |-> save.validDomains,
                  isEnabled |-> save.isEnabled, mode |-> save.mode,
                  desiredRules |-> save.desiredRules]
  /\ UNCHANGED <<formVars, storage, dynamicRules, now, bg, recon, session>>

\* clearAlarm resolves; createAlarm, when it is called, creates the alarm in
\* the same turn, and the success status follows
ClearAlarmResolved ==
  /\ save.pc = "clearAlarm"
  /\ LET create == ShouldCreateAlarm(save.temporaryUntil, now)
         report == Reported(AppliedMessage(save.temporaryUntil,
                                           save.temporaryMinutes), "success")
     IN /\ alarm' = IF create THEN save.temporaryUntil ELSE NullInstant
        /\ status' = report
        /\ save' = [save EXCEPT
                      !.pc = "done", !.outcome = "applied",
                      !.syncedAt = now,
                      !.calls.createAlarm = IF create THEN 1 ELSE 0,
                      !.statuses = Append(@, report)]
  /\ lastSave' = [clean |-> TRUE, validHeaders |-> save.validHeaders,
                  validDomains |-> save.validDomains,
                  isEnabled |-> save.isEnabled, mode |-> save.mode,
                  desiredRules |-> save.desiredRules]
  /\ UNCHANGED <<formVars, storage, dynamicRules, now, bg, recon, session>>

\* clearAlarm resolves and chrome.alarms.create leaves lastError set
CreateAlarmRejected ==
  /\ save.pc = "clearAlarm"
  /\ ShouldCreateAlarm(save.temporaryUntil, now)
  /\ LET report == Reported(<<"Failed to schedule extension alarm: ">>
                              \o LastErrorMessage, "error")
     IN /\ alarm' = NullInstant
        /\ status' = report
        /\ save' = [save EXCEPT !.pc = "done", !.outcome = "failed",
                                !.syncedAt = now,
                                !.failedAt = "createAlarm",
                                !.calls.createAlarm = 1,
                                !.statuses = Append(@, report)]
  /\ lastSave' = NoLastSave
  /\ UNCHANGED <<formVars, storage, dynamicRules, now, bg, recon, session>>

\* saveConfig has returned and the popup is closed: the component, its
\* signals and the handler's locals are gone; the next popup starts from the
\* signals' initial values.  A file that was downloaded stays on disk.
PopupClosed ==
  /\ save.pc = "done"
  /\ save' = IdleSave
  /\ headers' = DEFAULT_HEADERS
  /\ enabled' = TRUE
  /\ domainInput' = <<>>
  /\ domainMatchMode' = "include_subdomains"
  /\ temporaryMinutesInput' = <<"0">>
  /\ status' = [msg |-> <<>>, type |-> "success"]
  /\ session' = [FreshSession EXCEPT !.file = session.file,
                                     !.exported = session.exported]
  /\ UNCHANGED <<serviceVars, now, bg, lastSave, recon>>

\* the context readLastError is given by the wrapper of each service call
RejectionContext(pc) ==
  CASE pc = "storageSet" -> "Failed to persist extension storage"
    [] pc = "getDynamicRules" -> "Failed to read dynamic rules"
    [] pc = "updateDynamicRules" -> "Failed to update dynamic rules"
    [] pc = "clearAlarm" -> "Failed to clear extension alarm"

\* the awaited service call rejects: the catch block reports the message
SaveRejected ==
  /\ save.pc \in {"storageSet", "getDynamicRules", "updateDynamicRules",
                  "clearAlarm"}
  /\ LET report == Reported(ErrorMessage(RejectionContext(save.pc)), "error")
     IN /\ status' = report
        /\ save' = [save EXCEPT !.pc = "done", !.outcome = "failed",
                                !.failedAt = save.pc,
                                !.statuses = Append(@, report)]
  /\ lastSave' = NoLastSave
  /\ UNCHANGED <<formVars, serviceVars, now, bg, recon, session>>


(* ------------------------------------------------------------------ *)
(* The service worker: expiry, startup and install handlers             *)
(* ------------------------------------------------------------------ *)

\* only the enabled switch written, the expiry instant left in storage
DisablePayloadKeepingInstant ==
  [EmptyStorage EXCEPT !.keys = {"enabled"}, !.enabled = FALSE]

\* only the expiry instant cleared, the enabled switch left in storage
DisablePayloadKeepingEnabled ==
  [EmptyStorage EXCEPT !.keys = {"temporaryUntil"},
                       !.temporaryUntil = NullInstant]

DisablePayload ==
  [EmptyStorage EXCEPT !.keys = {"enabled", "temporaryUntil"},
                       !.enabled = FALSE, !.temporaryUntil = NullInstant]

\* onAlarm: the armed instant has come; the one-shot alarm is spent and
\* disableExtensionByExpiry issues its setStorage
AlarmFire ==
  /\ bg.pc = "idle"
  /\ alarm # NullInstant
  /\ alarm <= now
  /\ alarm' = NullInstant
  /\ bg' = [IdleBg EXCEPT !.pc = "disable_set", !.trigger = "alarm",
                          !.outcome = "running", !.pre = Snapshot,
                          !.startedAt = now]
  /\ UNCHANGED <<formVars, status, storage, dynamicRules, now, save, lastSave,
                 recon, session>>

\* setStorage({enabled: false, temporaryUntil: null}) calls back;
\* clearAllDynamicRules issues getDynamicRules
DisableStorageWritten ==
  /\ bg.pc = "disable_set"
  /\ storage' = StorageWrite(storage, DisablePayload)
  /\ bg' = [bg EXCEPT !.pc = "disable_get"]
  /\ lastSave' = NoLastSave
  /\ UNCHANGED <<formVars, status, dynamicRules, alarm, now, save, recon, session>>

\* getDynamicRules calls back: every installed id is handed to
\* updateDynamicRules
DisableRulesRead ==
  /\ bg.pc = "disable_get"
  /\ bg' = [bg EXCEPT !.pc = "disable_update",
                      !.removeRuleIds =
                        [i \in 1..Len(dynamicRules) |-> dynamicRules[i].id],
                      !.updateCalls = @ + 1]
  /\ UNCHANGED <<formVars, status, serviceVars, now, save, lastSave, recon, session>>

\* updateDynamicRules calls back: chrome.alarms.clear(ALARM_NAME)
DisableRulesCleared ==
  /\ bg.pc = "disable_update"
  /\ dynamicRules' = ApplyDelta(dynamicRules, bg.removeRuleIds, <<>>)
  /\ alarm' = NullInstant
  /\ bg' = [bg EXCEPT !.pc = "done", !.outcome = "fired"]
  /\ lastSave' = NoLastSave
  /\ UNCHANGED <<formVars, status, storage, now, save, recon, session>>

\* onStartup: the browser starts; the alarm may not have survived;
\* syncAlarmFromStorage issues getStorage
Startup ==
  /\ bg.pc = "idle"
  /\ alarm' \in {alarm, NullInstant}
  /\ bg' = [IdleBg EXCEPT !.pc = "sync_get", !.trigger = "startup",
                          !.outcome = "running",
                          !.pre = [Snapshot EXCEPT !.alarm = alarm'],
                          !.startedAt = now]
  /\ UNCHANGED <<formVars, status, storage, dynamicRules, now, save, lastSave,
                 recon, session>>

\* an instant that has passed is dropped, as the popup's syncExpiryAlarm does
scheduleExpiryAlarmDropping(temporaryUntil, clock) ==
  IF temporaryUntil <= 0 \/ temporaryUntil <= clock
    THEN [do |-> "clear", when |-> NullInstant]
    ELSE [do |-> "create", when |-> temporaryUntil]

\* the alarm armed a fixed delay after the start
scheduleExpiryAlarmRelative(temporaryUntil, clock) ==
  IF temporaryUntil <= 0
    THEN [do |-> "clear", when |-> NullInstant]
  ELSE IF temporaryUntil <= clock
    THEN [do |-> "disable", when |-> NullInstant]
  ELSE [do |-> "create", when |-> clock + MS_PER_MINUTE]

\* scheduleExpiryAlarm: what it does with the persisted instant
scheduleExpiryAlarm(temporaryUntil, clock) ==
  IF temporaryUntil <= 0
    THEN [do |-> "clear", when |-> NullInstant]
  ELSE IF temporaryUntil <= clock
    THEN [do |-> "disable", when |-> NullInstant]
  ELSE [do |-> "create", when |-> temporaryUntil]

\* getStorage(['enabled', 'temporaryUntil']) calls back: syncAlarmFromStorage
\* and scheduleExpiryAlarm
SyncStorageRead ==
  /\ bg.pc = "sync_get"
  /\ LET resultEnabled ==
           /\ "enabled" \in storage.keys
           /\ CASE storage.mistyped["enabled"] = "no" -> storage.enabled
                [] storage.mistyped["enabled"] = "null" -> FALSE
                [] storage.mistyped["enabled"] = "string" -> TRUE
         temporaryUntil == IF Holds(storage, "temporaryUntil")
                             THEN storage.temporaryUntil ELSE NullInstant
         todo == IF resultEnabled
                   THEN scheduleExpiryAlarm(temporaryUntil, now)
                   ELSE [do |-> "clear", when |-> NullInstant]
         seen == [bg EXCEPT !.readAt = now, !.read = storage,
                            !.decision = todo.do]
     IN CASE todo.do = "clear" ->
               /\ alarm' = NullInstant
               /\ bg' = [seen EXCEPT !.pc = "done", !.outcome = "cleared"]
          [] todo.do = "disable" ->
               /\ alarm' = alarm
               /\ bg' = [seen EXCEPT !.pc = "disable_set"]
          [] todo.do = "create" ->
               /\ alarm' = todo.when
               /\ bg' = [seen EXCEPT !.pc = "done", !.outcome = "armed"]
  /\ UNCHANGED <<formVars, status, storage, dynamicRules, now, save, lastSave,
                 recon, session>>

\* onInstalled (install or update): initializeStorage issues getStorage
Install ==
  /\ bg.pc = "idle"
  /\ alarm' \in {alarm, NullInstant}
  /\ bg' = [IdleBg EXCEPT !.pc = "init_get", !.trigger = "install",
                          !.outcome = "running",
                          !.pre = [Snapshot EXCEPT !.alarm = alarm'],
                          !.startedAt = now]
  /\ UNCHANGED <<formVars, status, storage, dynamicRules, now, save, lastSave,
                 recon, session>>

\* the initialState of initializeStorage: result.enabled ?? true keeps every
\* value but undefined and null; Array.isArray, includes and typeof keep the
\* values of the right type
InitialState(result) ==
  LET enabledKept == "enabled" \in result.keys
                       /\ result.mistyped["enabled"] # "null"
  IN [keys |-> StorageKeys,
      enabled |-> IF enabledKept THEN result.enabled ELSE TRUE,
      headers |-> IF Holds(result, "headers") THEN result.headers ELSE <<>>,
      domains |-> IF Holds(result, "domains") THEN result.domains ELSE <<>>,
      domainMatchMode |->
        IF Holds(result, "domainMatchMode")
             /\ result.domainMatchMode \in MatchModes
          THEN result.domainMatchMode
          ELSE "include_subdomains",
      temporaryUntil |->
        IF Holds(result, "temporaryUntil") THEN result.temporaryUntil
        ELSE NullInstant,
      mistyped |->
        [WellTyped EXCEPT !["enabled"] =
           IF enabledKept THEN result.mistyped["enabled"] ELSE "no"]]

\* getStorage calls back: setStorage(initialState, syncAlarmFromStorage)
InitStorageRead ==
  /\ bg.pc = "init_get"
  /\ bg' = [bg EXCEPT !.pc = "init_set", !.payload = InitialState(storage)]
  /\ UNCHANGED <<formVars, status, serviceVars, now, save, lastSave, recon, session>>

\* setStorage calls back: syncAlarmFromStorage issues getStorage
InitStorageWritten ==
  /\ bg.pc = "init_set"
  /\ storage' = StorageWrite(storage, bg.payload)
  /\ bg' = [bg EXCEPT !.pc = "sync_get"]
  /\ lastSave' = NoLastSave
  /\ UNCHANGED <<formVars, status, dynamicRules, alarm, now, save, recon, session>>

BgInFlight == bg.pc \notin {"idle", "done"}

\* a service call of the worker fails: the error is logged and the chain of
\* callbacks stops
BgRejected ==
  /\ BgInFlight
  /\ bg' = [bg EXCEPT !.pc = "done", !.outcome = "failed"]
  /\ UNCHANGED <<formVars, status, serviceVars, now, save, lastSave, recon, session>>

\* the listener has returned and nothing is pending: the browser stops the
\* service worker, and the handler's locals are gone
WorkerStopped ==
  /\ bg.pc = "done"
  /\ bg' = IdleBg
  /\ UNCHANGED <<formVars, status, serviceVars, now, save, lastSave, recon, session>>

(* ------------------------------------------------------------------ *)
(* The popup and the worker, one handler at a time                      *)
(* ------------------------------------------------------------------ *)

SaveClick ==
  \E f \in FormInputs :
    /\ AllIdle
    /\ SaveConfigStart(f.headers, f.enabled, f.domainInput, f.domainMatchMode,
                       f.temporaryMinutesInput)

Next ==
  \/ Tick
  \/ SaveClick
  \/ StorageSetResolved
  \/ GetDynamicRulesResolved
  \/ UpdateDynamicRulesResolved
  \/ ClearAlarmResolved
  \/ CreateAlarmRejected
  \/ SaveRejected
  \/ PopupClosed
  \/ AllIdle /\ AlarmFire
  \/ AllIdle /\ Startup
  \/ AllIdle /\ Install
  \/ DisableStorageWritten
  \/ DisableRulesRead
  \/ DisableRulesCleared
  \/ SyncStorageRead
  \/ InitStorageRead
  \/ InitStorageWritten
  \/ BgRejected
  \/ WorkerStopped

Spec == Init /\ [][Next]_vars


(* ------------------------------------------------------------------ *)
(* The same handlers when no service call fails and every pending       *)
(* callback and every due alarm is delivered                            *)
(* ------------------------------------------------------------------ *)

\* the longest expiry a form of ValidForms asks for, in minutes
LongestExpiry ==
  LET minutes == {parseTemporaryMinutes(f.temporaryMinutesInput).n :
                    f \in ValidForms}
  IN CHOOSE m \in minutes : \A n \in minutes : n <= m

\* a save is clicked early enough for its expiry instant to lie within the
\* clock's range
LiveSaveClick ==
  \E f \in ValidForms :
    /\ AllIdle
    /\ now + LongestExpiry * MS_PER_MINUTE <= MaxClock * MS_PER_MINUTE
    /\ SaveConfigStart(f.headers, f.enabled, f.domainInput, f.domainMatchMode,
                       f.temporaryMinutesInput)

LiveAlarmFire == AllIdle /\ AlarmFire

LiveNext ==
  \/ Tick
  \/ LiveSaveClick
  \/ StorageSetResolved
  \/ GetDynamicRulesResolved
  \/ UpdateDynamicRulesResolved
  \/ ClearAlarmResolved
  \/ PopupClosed
  \/ LiveAlarmFire
  \/ AllIdle /\ Startup
  \/ AllIdle /\ Install
  \/ DisableStorageWritten
  \/ DisableRulesRead
  \/ DisableRulesCleared
  \/ SyncStorageRead
  \/ InitStorageRead
  \/ InitStorageWritten
  \/ WorkerStopped

\* time advances, every service call answers, the popup is closed after a
\* save, the worker stops after a handler, and an alarm that is due is
\* delivered even if other handlers keep running in between
LiveFairness ==
  /\ WF_vars(Tick)
  /\ WF_vars(StorageSetResolved)
  /\ WF_vars(GetDynamicRulesResolved)
  /\ WF_vars(UpdateDynamicRulesResolved)
  /\ WF_vars(ClearAlarmResolved)
  /\ WF_vars(PopupClosed)
  /\ SF_vars(LiveAlarmFire)
  /\ WF_vars(DisableStorageWritten)
  /\ WF_vars(DisableRulesRead)
  /\ WF_vars(DisableRulesCleared)
  /\ WF_vars(SyncStorageRead)
  /\ WF_vars(InitStorageRead)
  /\ WF_vars(InitStorageWritten)
  /\ WF_vars(WorkerStopped)

SpecLive == Init /\ [][LiveNext]_vars /\ LiveFairness


(* ------------------------------------------------------------------ *)
(* The popup and the worker as the browser runs them: each in its own   *)
(* context, a handler of one starting whatever the other is doing       *)
(* ------------------------------------------------------------------ *)

\* a timed save with two domains and an untimed save without domain
ConcForms ==
  { FormInput(HeaderA, TRUE, DomainsAB, "include_subdomains", <<"1">>),
    FormInput(HeaderA, TRUE, <<>>, "include_subdomains", <<>>) }

\* the Save button is never disabled and knows nothing of the worker
ConcSaveClick ==
  \E f \in ConcForms :
    SaveConfigStart(f.headers, f.enabled, f.domainInput, f.domainMatchMode,
                    f.temporaryMinutesInput)

\* saves, timer fires and browser starts, every service call answering
ConcNext ==
  \/ Tick
  \/ ConcSaveClick
  \/ StorageSetResolved
  \/ GetDynamicRulesResolved
  \/ UpdateDynamicRulesResolved
  \/ ClearAlarmResolved
  \/ PopupClosed
  \/ AlarmFire
  \/ Startup
  \/ DisableStorageWritten
  \/ DisableRulesRead
  \/ DisableRulesCleared
  \/ SyncStorageRead
  \/ WorkerStopped

SpecConc == Init /\ [][ConcNext]_vars

\* a timed save, and a disabled form that asks for an expiry
OverlapForms ==
  { FormInput(HeaderA, TRUE, DomainA, "exact", <<"1">>),
    FormInput(HeaderA, FALSE, DomainA, "exact", <<"1">>) }

OverlapSaveClick ==
  \E f \in OverlapForms :
    SaveConfigStart(f.headers, f.enabled, f.domainInput, f.domainMatchMode,
                    f.temporaryMinutesInput)

\* the timed form was saved when the popup was last open: its configuration
\* is persisted, its rule is installed and its alarm is armed
OverlapInit ==
  LET f == FormInput(HeaderA, TRUE, DomainA, "exact", <<"1">>)
      result == validateConfig(f.headers, f.domainInput, f.domainMatchMode,
                               f.temporaryMinutesInput)
      temporaryUntil == ExpiryInstant(f.enabled, result.temporaryMinutes,
                                      MS_PER_MINUTE)
  IN /\ FormInit
     /\ storage = StorageWrite(EmptyStorage,
                               SavePayload(result.headers, f.enabled,
                                           result.domains, f.domainMatchMode,
                                           temporaryUntil))
     /\ dynamicRules = DesiredRules(result.headers, result.domains, f.enabled,
                                    f.domainMatchMode)
     /\ alarm = temporaryUntil
     /\ now = MS_PER_MINUTE
     /\ save = IdleSave
     /\ bg = IdleBg
     /\ lastSave = NoLastSave
     /\ recon = NoRecon
     /\ session = FreshSession

\* one save, timer fires and installs (or updates) of the extension, a
\* handler of the popup starting whatever the worker is doing and the other
\* way round, every service call answering
OverlapNext ==
  \/ Tick
  \/ OverlapSaveClick
  \/ StorageSetResolved
  \/ GetDynamicRulesResolved
  \/ UpdateDynamicRulesResolved
  \/ ClearAlarmResolved
  \/ AlarmFire
  \/ Install
  \/ DisableStorageWritten
  \/ DisableRulesRead
  \/ DisableRulesCleared
  \/ InitStorageRead
  \/ InitStorageWritten
  \/ SyncStorageRead
  \/ WorkerStopped

SpecOverlap == OverlapInit /\ [][OverlapNext]_vars


(* ------------------------------------------------------------------ *)
(* The install handler over whatever an earlier version left in storage *)
(* ------------------------------------------------------------------ *)

\* what storage may hold under one key: a value of the type this program
\* writes, or nothing, null, or a string where no string is expected (kind
\* "missing", "null", "string"; v is then the value the model keeps in the
\* unread field)
Stored(v) == [kind |-> "value", value |-> v]
NotStored(kind, v) == [kind |-> kind, value |-> v]

\* the area holding e, h, d, m, t under the five keys
Area(e, h, d, m, t) ==
  LET field == [enabled |-> e, headers |-> h, domains |-> d,
                domainMatchMode |-> m, temporaryUntil |-> t]
  IN [keys |-> {k \in StorageKeys : field[k].kind # "missing"},
      enabled |-> e.value,
      headers |-> h.value,
      domains |-> d.value,
      domainMatchMode |-> m.value,
      temporaryUntil |-> t.value,
      mistyped |-> [k \in StorageKeys |->
                      IF field[k].kind \in {"null", "string"}
                        THEN field[k].kind ELSE "no"]]

\* areas found at install or update: each key missing, well-typed, null or
\* a string; the mode also a string that is no mode; the instant null, past
\* and future
InstalledAreas ==
  { Area(e, h, d, m, t) :
      e \in {Stored(TRUE), Stored(FALSE)}
               \cup {NotStored(kind, EmptyStorage.enabled) :
                       kind \in {"missing", "null", "string"}},
      h \in {Stored(normalizeHeaders(HeaderA))}
               \cup {NotStored(kind, EmptyStorage.headers) :
                       kind \in {"missing", "null", "string"}},
      d \in {Stored(<<DomainA>>)}
               \cup {NotStored(kind, EmptyStorage.domains) :
                       kind \in {"missing", "string"}},
      m \in {Stored("exact"), Stored("bogus")}
               \cup {NotStored(kind, EmptyStorage.domainMatchMode) :
                       kind \in {"missing", "null"}},
      t \in {Stored(NullInstant), Stored(MS_PER_MINUTE),
             Stored(2 * MS_PER_MINUTE)}
               \cup {NotStored(kind, EmptyStorage.temporaryUntil) :
                       kind \in {"missing", "string"}} }

InstallInit ==
  /\ FormInit
  /\ storage \in InstalledAreas
  /\ dynamicRules = <<>>
  /\ alarm = NullInstant
  /\ now = MS_PER_MINUTE
  /\ save = IdleSave
  /\ bg = IdleBg
  /\ lastSave = NoLastSave
  /\ recon = NoRecon
  /\ session = FreshSession

\* onInstalled, run to its end, any number of times
InstallNext ==
  \/ Install
  \/ InitStorageRead
  \/ InitStorageWritten
  \/ SyncStorageRead
  \/ DisableStorageWritten
  \/ DisableRulesRead
  \/ DisableRulesCleared
  \/ WorkerStopped

SpecInstall == InstallInit /\ [][InstallNext]_vars


(* ------------------------------------------------------------------ *)
(* validateConfig on its own, over header rows of every shape           *)
(* ------------------------------------------------------------------ *)

\* the most header rows in the form
MaxRows == 3

\* keys: empty, valid, the same key in the other case with a trailing blank,
\* another valid key, a key with a blank inside
RowKeys ==
  { <<>>, <<"A">>, <<"a", " ">>, <<"B">>, <<"a", " ", "b">> }

\* values: blank, a value with a leading blank, a value with a line break
RowValues == { <<" ">>, <<" ", "1">>, <<"1", "\n", "2">> }

HeaderRows == { Header(k, v) : k \in RowKeys, v \in RowValues }

HeaderRowInputs == UNION { [1..n -> HeaderRows] : n \in 0..MaxRows }

\* the form holds any rows, a valid or an invalid domain and one minute
ValidateInit ==
  /\ headers \in HeaderRowInputs
  /\ enabled = TRUE
  /\ domainInput \in {DomainA, DomainBad}
  /\ domainMatchMode = "include_subdomains"
  /\ temporaryMinutesInput = <<"1">>
  /\ status = [msg |-> <<>>, type |-> "success"]
  /\ storage = EmptyStorage
  /\ dynamicRules = <<>>
  /\ alarm = NullInstant
  /\ now = MS_PER_MINUTE
  /\ save = IdleSave
  /\ bg = IdleBg
  /\ lastSave = NoLastSave
  /\ recon = NoRecon
  /\ session = LoadedSession

\* Save & Apply on the form as it stands: saveConfig up to its first await
ValidateRun ==
  SaveConfigStart(headers, enabled, domainInput, domainMatchMode,
                  temporaryMinutesInput)

ValidateNext == ValidateRun

SpecValidate == ValidateInit /\ [][ValidateNext]_vars


(* ------------------------------------------------------------------ *)
(* How the rules engine reads the compiled filters                      *)
(* ------------------------------------------------------------------ *)

StartsWith(s, prefix) ==
  Len(s) >= Len(prefix) /\ SubSeq(s, 1, Len(prefix)) = prefix

Drop(s, n) == SubSeq(s, n + 1, Len(s))

\* a URL by its parts; port and path are the text after the host
Url(scheme, host, port, path) ==
  [scheme |-> scheme, host |-> host, port |-> port, path |-> path]

UrlText(u) == u.scheme \o <<":", "/", "/">> \o u.host \o u.port \o u.path

\* the host part of a regexFilter as one-character atoms: a backslash makes
\* the next character literal, a bare dot matches any character
RECURSIVE RegexAtoms(_)
RegexAtoms(p) ==
  IF p = <<>> THEN <<>>
  ELSE IF Head(p) = "\\" /\ Len(p) >= 2
    THEN <<[any |-> FALSE, char |-> p[2]]>> \o RegexAtoms(Drop(p, 2))
  ELSE IF Head(p) = "."
    THEN <<[any |-> TRUE, char |-> "."]>> \o RegexAtoms(Tail(p))
  ELSE <<[any |-> FALSE, char |-> Head(p)]>> \o RegexAtoms(Tail(p))

AtomsMatchAt(atoms, url, q) ==
  /\ q + Len(atoms) - 1 <= Len(url)
  /\ \A k \in 1..Len(atoms) : atoms[k].any \/ url[q + k - 1] = atoms[k].char

\* ^https?:\/\/ : the positions right after the scheme and the two slashes
SchemeEnds(url) ==
  { Len(prefix) + 1 :
      prefix \in { pre \in { <<"h", "t", "t", "p", ":", "/", "/">>,
                             <<"h", "t", "t", "p", "s", ":", "/", "/">> } :
                     StartsWith(url, pre) } }

\* (?:[^./]+\.)+ matches url[p..q-1]: one or more non-empty runs free of
\* dots and slashes, each followed by a dot
LabelsMatch(url, p, q) ==
  /\ q > p + 1
  /\ q - 1 <= Len(url)
  /\ url[q - 1] = "."
  /\ url[p] # "."
  /\ \A k \in p..(q - 1) : url[k] # "/"
  /\ \A k \in p..(q - 2) : ~(url[k] = "." /\ url[k + 1] = ".")

\* (?::\d+)?\/ matches from position r
PortAndSlashAt(url, r) ==
  \/ r <= Len(url) /\ url[r] = "/"
  \/ /\ r <= Len(url)
     /\ url[r] = ":"
     /\ \E e \in (r + 1)..(Len(url) - 1) :
          /\ \A k \in (r + 1)..e : url[k] \in Digits
          /\ url[e + 1] = "/"

\* the pieces of pattern syntax the engine is given here
SchemePattern ==
  <<"^", "h", "t", "t", "p", "s", "?", ":", "\\", "/", "\\", "/">>

LabelsPattern ==
  <<"(", "?", ":", "[", "^", ".", "/", "]", "+", "\\", ".", ")", "+">>

PortAndSlashPattern ==
  <<"(", "?", ":", ":", "\\", "d", "+", ")", "?", "\\", "/">>

\* a regexFilter tested against a URL (unanchored at the end, as a
\* regexFilter is): the scheme, the labels group if the pattern has one, the
\* host atoms, the port group and the slash
RegexFilterMatches(filter, url) ==
  LET body == SubSeq(filter, Len(SchemePattern) + 1,
                     Len(filter) - Len(PortAndSlashPattern))
      sub == StartsWith(body, LabelsPattern)
      atoms == RegexAtoms(IF sub THEN Drop(body, Len(LabelsPattern)) ELSE body)
  IN /\ StartsWith(filter, SchemePattern)
     /\ Len(filter) >= Len(SchemePattern) + Len(PortAndSlashPattern)
     /\ Drop(filter, Len(filter) - Len(PortAndSlashPattern))
          = PortAndSlashPattern
     /\ \E p \in SchemeEnds(url) :
          \E q \in p..Len(url) :
            /\ IF sub THEN LabelsMatch(url, p, q) ELSE q = p
            /\ AtomsMatchAt(atoms, url, q)
            /\ PortAndSlashAt(url, q + Len(atoms))

\* the position right after "://", or 0
RECURSIVE AuthorityStart(_, _)
AuthorityStart(url, k) ==
  IF k + 2 > Len(url) THEN 0
  ELSE IF url[k] = ":" /\ url[k + 1] = "/" /\ url[k + 2] = "/" THEN k + 3
  ELSE AuthorityStart(url, k + 1)

\* the last position of the host: before the first colon or slash
RECURSIVE HostEnd(_, _)
HostEnd(url, k) ==
  IF k > Len(url) \/ url[k] \in {":", "/"} THEN k - 1
  ELSE HostEnd(url, k + 1)

\* a urlFilter tested against a URL: "*" matches everything; "||" anchors
\* the rest, taken literally, at the start of the host or after one of its
\* dots
UrlFilterMatches(filter, url) ==
  IF filter = <<"*">> THEN TRUE
  ELSE LET rest == Drop(filter, 2)
           first == AuthorityStart(url, 1)
           last == HostEnd(url, first)
       IN /\ StartsWith(filter, <<"|", "|">>)
          /\ first > 0
          /\ \E q \in first..last :
               /\ q = first \/ url[q - 1] = "."
               /\ q + Len(rest) - 1 <= Len(url)
               /\ SubSeq(url, q, q + Len(rest) - 1) = rest

ConditionMatches(condition, url) ==
  IF condition.filterKey = "urlFilter"
    THEN UrlFilterMatches(condition.filter, url)
    ELSE RegexFilterMatches(condition.filter, url)

(* ------------------------------------------------------------------ *)
(* saveConfig over domain texts of every shape                          *)
(* ------------------------------------------------------------------ *)

\* the most tokens in the domain text
MaxTokens == 2

ExampleCom == <<"e", "x", "a", "m", "p", "l", "e", ".", "c", "o", "m">>
Ipv4Literal == <<"1", ".", "2", ".", "3", ".", "4">>

\* tokens: a host; the host in upper case between blanks; the host behind a
\* wildcard prefix; a blank token; localhost; an IPv4 literal; an octet out
\* of range; a host without a top-level label; the host of the example
DomainTokens ==
  { DomainA, <<" ", "A", ".", "i", "o", " ">>, <<"*", ".", "a", ".", "i", "o">>, <<" ">>, LOCALHOST, Ipv4Literal,
    <<"2", "5", "6", ".", "1", ".", "1", ".", "1">>, DomainBad, ExampleCom }

DomainSeparators == { <<",">>, <<"\n">> }

RECURSIVE DomainTexts(_)
DomainTexts(n) ==
  IF n = 0 THEN { <<>> }
  ELSE IF n = 1 THEN DomainTokens
  ELSE { text \o sep \o token :
           text \in DomainTexts(n - 1), sep \in DomainSeparators,
           token \in DomainTokens }

DomainTextInputs == UNION { DomainTexts(n) : n \in 0..MaxTokens }

\* the form holds a valid or an invalid header row, any domain text, any
\* match mode and no expiry or a negative one
CompileInit ==
  /\ headers \in {HeaderA, HeaderHalf}
  /\ enabled = TRUE
  /\ domainInput \in DomainTextInputs
  /\ domainMatchMode \in MatchModes
  /\ temporaryMinutesInput \in {<<"0">>, <<"-", "1">>}
  /\ status = [msg |-> <<>>, type |-> "success"]
  /\ storage = EmptyStorage
  /\ dynamicRules = <<>>
  /\ alarm = NullInstant
  /\ now = MS_PER_MINUTE
  /\ save = IdleSave
  /\ bg = IdleBg
  /\ lastSave = NoLastSave
  /\ recon = NoRecon
  /\ session = LoadedSession

\* Save & Apply on the form as it stands, run to its end
CompileNext ==
  \/ ValidateRun
  \/ StorageSetResolved
  \/ GetDynamicRulesResolved
  \/ UpdateDynamicRulesResolved
  \/ ClearAlarmResolved

SpecCompile == CompileInit /\ [][CompileNext]_vars

\* the match mode selector's onChange while saveConfig awaits storageSet
ModeChangedDuringSave ==
  /\ save.pc = "storageSet"
  /\ \E mode \in MatchModes \ {domainMatchMode} : domainMatchMode' = mode
  /\ UNCHANGED <<headers, enabled, domainInput, temporaryMinutesInput, status,
                 serviceVars, now, save, bg, lastSave, recon, session>>

\* the save of SpecCompile with the selector live during the first await
EditNext ==
  \/ CompileNext
  \/ ModeChangedDuringSave

SpecEdit == CompileInit /\ [][EditNext]_vars


(* ------------------------------------------------------------------ *)
(* validateConfig over what the minutes field can hold                  *)
(* ------------------------------------------------------------------ *)

\* the most characters in the minutes field
MaxMinuteChars == 4

MinuteChars == {"0", "1", "4", "5", ".", "-"}

IsDigits(s) == s # <<>> /\ \A i \in DOMAIN s : s[i] \in Digits

\* digits, or optional digits, a dot and digits
IsMantissa(s) ==
  \/ IsDigits(s)
  \/ \E k \in DOMAIN s :
       /\ s[k] = "."
       /\ k = 1 \/ IsDigits(SubSeq(s, 1, k - 1))
       /\ IsDigits(Drop(s, k))

\* what an input of type "number" hands over as its value: the empty text,
\* or a number with an optional minus sign (no exponent is typed here)
IsNumberFieldValue(t) ==
  \/ t = <<>>
  \/ IsMantissa(IF Head(t) = "-" THEN Tail(t) ELSE t)

MinuteTexts ==
  { t \in UNION { [1..n -> MinuteChars] : n \in 0..MaxMinuteChars } :
      IsNumberFieldValue(t) }

\* a form that is valid but for what the minutes field holds
MinutesInit ==
  /\ headers = HeaderA
  /\ enabled = TRUE
  /\ domainInput = DomainA
  /\ domainMatchMode = "include_subdomains"
  /\ temporaryMinutesInput \in MinuteTexts
  /\ status = [msg |-> <<>>, type |-> "success"]
  /\ storage = EmptyStorage
  /\ dynamicRules = <<>>
  /\ alarm = NullInstant
  /\ now = MS_PER_MINUTE
  /\ save = IdleSave
  /\ bg = IdleBg
  /\ lastSave = NoLastSave
  /\ recon = NoRecon
  /\ session = LoadedSession

MinutesNext == ValidateRun

SpecMinutes == MinutesInit /\ [][MinutesNext]_vars


(* ------------------------------------------------------------------ *)
(* The form's handlers: header rows and import                          *)
(* ------------------------------------------------------------------ *)

\* values of a parsed JSON document, by typeof / Array.isArray
ParsedUndefined == [type |-> "undefined"]
ParsedNull == [type |-> "null"]
ParsedString(text) == [type |-> "string", text |-> text]
ParsedBoolean(b) == [type |-> "boolean", bool |-> b]
\* a number in tenths; finite is Number.isFinite
ParsedNumber(tenths) == [type |-> "number", finite |-> TRUE, tenths |-> tenths]
ParsedInfinity == [type |-> "number", finite |-> FALSE, tenths |-> 0]
ParsedArray(items) == [type |-> "array", items |-> items]
\* an object with the members key and value (ParsedUndefined: no member)
ParsedObject(key, value) == [type |-> "object", key |-> key, value |-> value]

\* JSON.parse gave an object with these members
Document(h, e, d, m, t) ==
  [kind |-> "object", headers |-> h, enabled |-> e, domains |-> d,
   domainMatchMode |-> m, temporaryMinutes |-> t]

\* JSON.parse threw
UnparseableDocument == [kind |-> "unparseable"]
\* the text "null"
NullDocument == [kind |-> "null"]

\* the filter of importedHeaders
IsHeaderConfig(item) ==
  /\ item.type = "object"
  /\ item.key.type # "undefined"
  /\ item.value.type # "undefined"
  /\ item.key.type = "string"
  /\ item.value.type = "string"

\* the fraction cut off
MathRoundTruncating(tenths) == tenths \div 10

\* Math.round of a number given in tenths
MathRound(tenths) == (tenths + 5) \div 10

Max(a, b) == IF a >= b THEN a ELSE b
Min(a, b) == IF a <= b THEN a ELSE b

DigitChar(d) ==
  CASE d = 0 -> "0" [] d = 1 -> "1" [] d = 2 -> "2" [] d = 3 -> "3"
    [] d = 4 -> "4" [] d = 5 -> "5" [] d = 6 -> "6" [] d = 7 -> "7"
    [] d = 8 -> "8" [] d = 9 -> "9"

\* String(n) for an integer n >= 0
RECURSIVE NumberToString(_)
NumberToString(n) ==
  IF n < 10 THEN <<DigitChar(n)>>
  ELSE NumberToString(n \div 10) \o <<DigitChar(n % 10)>>

ImportedMessage ==
  <<"Config imported. Click Save & Apply Changes to activate.">>

ImportFailedMessage == <<"Failed to import config JSON.">>

\* what is typed into a field of a header row: nothing left, or a letter
TypedTexts == { <<>>, <<"A">> }

\* header lists of documents: none, not a list, empty, one good entry, a key
\* that is not a string, good entries around an entry without value, an
\* entry that is no object before a good one, nothing but bad entries
DocumentHeaders ==
  { ParsedUndefined,
    ParsedString(<<"x">>),
    ParsedArray(<<>>),
    ParsedArray(<<ParsedObject(ParsedString(<<"K">>), ParsedString(<<"1">>))>>),
    ParsedArray(<<ParsedObject(ParsedNumber(10), ParsedString(<<"1">>))>>),
    ParsedArray(<<ParsedObject(ParsedString(<<"K">>), ParsedString(<<"1">>)),
                  ParsedObject(ParsedString(<<"L">>), ParsedUndefined),
                  ParsedObject(ParsedString(<<"M">>), ParsedString(<<>>))>>),
    ParsedArray(<<ParsedNull,
                  ParsedObject(ParsedString(<<"M">>), ParsedString(<<>>))>>),
    ParsedArray(<<ParsedString(<<"K">>),
                  ParsedObject(ParsedUndefined, ParsedString(<<"1">>))>>) }

\* the other members, together (a mode is spelt as one piece): all missing
SettingsMissing ==
  [enabled |-> ParsedUndefined, domains |-> ParsedUndefined,
   domainMatchMode |-> ParsedUndefined]

\* all well-formed
SettingsGood ==
  [enabled |-> ParsedBoolean(FALSE),
   domains |-> ParsedArray(<<ParsedString(DomainA), ParsedString(DomainB)>>),
   domainMatchMode |-> ParsedString(<<"exact">>)]

\* all of the wrong type
SettingsMistyped ==
  [enabled |-> ParsedString(<<"no">>), domains |-> ParsedString(DomainA),
   domainMatchMode |-> ParsedNumber(10)]

\* a domain list with an entry that is no string, a mode that is no mode,
\* enabled null
SettingsMixed ==
  [enabled |-> ParsedNull,
   domains |-> ParsedArray(<<ParsedString(DomainA), ParsedNumber(50),
                             ParsedString(DomainB)>>),
   domainMatchMode |-> ParsedString(<<"E", "X", "A", "C", "T">>)]

DocumentSettings ==
  { SettingsMissing, SettingsGood, SettingsMistyped, SettingsMixed }

\* minutes: missing, a string, not finite, and the numbers -1.5, -0.4, 0,
\* 1.4, 1.5, 1440, 1440.4, 1440.5, 2000
DocumentMinutes ==
  { ParsedUndefined, ParsedString(<<"5">>), ParsedInfinity }
    \cup { ParsedNumber(t) :
             t \in {0 - 15, 0 - 4, 0, 14, 15, 10 * MAX_TEMPORARY_MINUTES,
                    10 * MAX_TEMPORARY_MINUTES + 4,
                    10 * MAX_TEMPORARY_MINUTES + 5,
                    10 * MAX_TEMPORARY_MINUTES + 5600} }

\* text that does not parse, the text "null", every header list in a
\* document that is otherwise well-formed and in one that is otherwise
\* malformed, and every combination of the other members
Documents ==
  { UnparseableDocument, NullDocument }
    \cup { Document(h, st.enabled, st.domains, st.domainMatchMode,
                    ParsedNumber(15)) :
             h \in DocumentHeaders, st \in {SettingsGood} }
    \cup { Document(h, st.enabled, st.domains, st.domainMatchMode,
                    ParsedNumber(10 * MAX_TEMPORARY_MINUTES + 5)) :
             h \in DocumentHeaders, st \in {SettingsMixed} }
    \cup { Document(ParsedUndefined, st.enabled, st.domains,
                    st.domainMatchMode, t) :
             st \in DocumentSettings, t \in DocumentMinutes }

\* addHeader (the rows are capped at MaxRows here)
AddHeader ==
  /\ Len(headers) < MaxRows
  /\ headers' = Append(headers, Header(<<>>, <<>>))
  /\ session' = [session EXCEPT !.op = "add", !.doc = NoDocument,
                                !.fellBack = FALSE]
  /\ UNCHANGED <<enabled, domainInput, domainMatchMode, temporaryMinutesInput,
                 status, serviceVars, now, save, bg, lastSave, recon>>

\* removeHeader(index): an empty result is replaced by DEFAULT_HEADERS, the
\* array of the module, with whatever its row now holds
RemoveHeader ==
  \E index \in DOMAIN headers :
    LET newHeaders ==
          [i \in 1..(Len(headers) - 1) |->
             IF i < index THEN headers[i] ELSE headers[i + 1]]
        fallback == Len(newHeaders) = 0
    IN /\ headers' = IF fallback THEN <<session.defaultRow>> ELSE newHeaders
       /\ session' =
            [session EXCEPT
               !.shared = IF fallback THEN 1
                          ELSE IF @ = index THEN 0
                          ELSE IF @ > index THEN @ - 1
                          ELSE @,
               !.op = "remove", !.doc = NoDocument, !.fellBack = fallback]
       /\ UNCHANGED <<enabled, domainInput, domainMatchMode,
                      temporaryMinutesInput, status, serviceVars, now, save,
                      bg, lastSave, recon>>

\* updateHeader(index, field, val): the array is copied, the row object is
\* not, so the assignment also reaches DEFAULT_HEADERS when the row is its
\* row
UpdateHeader ==
  \E index \in DOMAIN headers, field \in {"key", "value"}, val \in TypedTexts :
    LET row == [headers[index] EXCEPT ![field] = val]
    IN /\ headers[index][field] # val
       /\ headers' = [headers EXCEPT ![index] = row]
       /\ session' =
            [session EXCEPT
               !.defaultRow = IF session.shared = index THEN row ELSE @,
               !.op = "update", !.doc = NoDocument, !.fellBack = FALSE]
       /\ UNCHANGED <<enabled, domainInput, domainMatchMode,
                      temporaryMinutesInput, status, serviceVars, now, save,
                      bg, lastSave, recon>>

\* the form is set to its defaults as well
ImportFailedResetting(doc) ==
  /\ headers' = <<session.defaultRow>>
  /\ enabled' = TRUE
  /\ domainInput' = <<>>
  /\ domainMatchMode' = "include_subdomains"
  /\ temporaryMinutesInput' = <<"0">>
  /\ status' = Reported(ImportFailedMessage, "error")
  /\ session' = [session EXCEPT !.shared = 1, !.op = "import", !.doc = doc,
                                !.fellBack = TRUE]
  /\ UNCHANGED <<serviceVars, now, save, bg, lastSave, recon>>

\* the rule table is cleared as well
ImportFailedClearingRules(doc) ==
  /\ status' = Reported(ImportFailedMessage, "error")
  /\ session' = [session EXCEPT !.op = "import", !.doc = doc,
                                !.fellBack = FALSE]
  /\ dynamicRules' = <<>>
  /\ UNCHANGED <<formVars, storage, alarm, now, save, bg, lastSave, recon>>

\* the catch clause of importConfig: JSON.parse threw, or a member of null
\* was read
ImportFailed(doc) ==
  /\ status' = Reported(ImportFailedMessage, "error")
  /\ session' = [session EXCEPT !.op = "import", !.doc = doc,
                                !.fellBack = FALSE]
  /\ UNCHANGED <<formVars, serviceVars, now, save, bg, lastSave, recon>>

\* importConfig once file.text() has resolved with the text of doc
ImportConfig(doc) ==
    IF doc.kind # "object"
      THEN ImportFailed(doc)
      ELSE LET listed == doc.headers.type = "array"
               importedHeaders ==
                 IF listed
                   THEN LET kept == SelectSeq(doc.headers.items, IsHeaderConfig)
                        IN [i \in 1..Len(kept) |->
                              Header(kept[i].key.text, kept[i].value.text)]
                   ELSE <<session.defaultRow>>
               fallback == ~listed \/ Len(importedHeaders) = 0
               importedDomains ==
                 IF doc.domains.type = "array"
                   THEN LET kept == SelectSeq(doc.domains.items,
                                      LAMBDA item : item.type = "string")
                        IN [i \in 1..Len(kept) |-> kept[i].text]
                   ELSE <<>>
               importedMode ==
                 IF doc.domainMatchMode.type = "string"
                      /\ doc.domainMatchMode.text
                           \in { <<"exact">>, <<"include_subdomains">>,
                                 <<"subdomains_only">> }
                   THEN doc.domainMatchMode.text[1]
                   ELSE "include_subdomains"
               importedTemporaryMinutes ==
                 IF doc.temporaryMinutes.type = "number"
                      /\ doc.temporaryMinutes.finite
                   THEN Max(0, Min(MAX_TEMPORARY_MINUTES,
                                   MathRound(doc.temporaryMinutes.tenths)))
                   ELSE 0
           IN /\ headers' = IF fallback THEN <<session.defaultRow>>
                                        ELSE importedHeaders
              /\ enabled' = IF doc.enabled.type = "boolean"
                              THEN doc.enabled.bool ELSE TRUE
              /\ domainInput' = Join(importedDomains, <<"\n">>)
              /\ domainMatchMode' = importedMode
              /\ temporaryMinutesInput' =
                   NumberToString(importedTemporaryMinutes)
              /\ status' = Reported(ImportedMessage, "success")
              /\ session' = [session EXCEPT
                               !.shared = IF fallback THEN 1 ELSE 0,
                               !.op = "import", !.doc = doc,
                               !.fellBack = fallback]
              /\ UNCHANGED <<serviceVars, now, save, bg, lastSave, recon>>

FormNext ==
  \/ AddHeader
  \/ RemoveHeader
  \/ UpdateHeader
  \/ \E doc \in Documents : ImportConfig(doc)

SpecForm == Init /\ [][FormNext]_vars


(* ------------------------------------------------------------------ *)
(* Export, import of the exported file, and Save & Apply                *)
(* ------------------------------------------------------------------ *)

\* the closing quote taken for part of the string
JsonUnescapeGreedy(s) == SubSeq(s, 1, Len(s))

\* JSON.parse inside a string literal, after its opening quote: escapes are
\* undone up to the closing quote
RECURSIVE JsonUnescape(_)
JsonUnescape(s) ==
  IF s = <<>> \/ Head(s) = "\""
    THEN <<>>
  ELSE IF Head(s) = "\\" /\ Len(s) >= 2
    THEN << CASE s[2] = "n" -> "\n"
              [] s[2] = "r" -> "\r"
              [] s[2] = "t" -> "\t"
              [] OTHER -> s[2] >> \o JsonUnescape(Tail(Tail(s)))
  ELSE <<Head(s)>> \o JsonUnescape(Tail(s))

\* JSON.parse of a string literal
JsonParseString(text) == JsonUnescape(Tail(text))

\* the payload of exportConfig
ExportPayload(e, result, m) ==
  [enabled |-> e, headers |-> result.headers, domains |-> result.domains,
   domainMatchMode |-> m, temporaryMinutes |-> result.temporaryMinutes]

\* JSON.stringify(payload, null, 2) as JSON.parse reads it back: strings and
\* the number go through their text, the arrays and the object keep their
\* members
ExportedDocument(payload) ==
  LET reread(text) == ParsedString(JsonParseString(JsonString(text)))
  IN Document(
       ParsedArray([i \in 1..Len(payload.headers) |->
                      ParsedObject(reread(payload.headers[i].key),
                                   reread(payload.headers[i].value))]),
       ParsedBoolean(payload.enabled),
       ParsedArray([i \in 1..Len(payload.domains) |->
                      reread(payload.domains[i])]),
       reread(<<payload.domainMatchMode>>),
       ParsedNumber(
         10 * DecimalValue(NumberToString(payload.temporaryMinutes))))

\* exportConfig: the form is validated; an invalid form is reported, a valid
\* one is downloaded and no status is set
ExportConfig ==
  LET result == validateConfig(headers, domainInput, domainMatchMode,
                               temporaryMinutesInput)
      payload == ExportPayload(enabled, result, domainMatchMode)
  IN IF ~result.ok
       THEN /\ status' = Reported(result.error, "error")
            /\ session' = [session EXCEPT !.op = "export",
                                          !.doc = NoDocument,
                                          !.fellBack = FALSE]
            /\ UNCHANGED <<formVars, serviceVars, now, save, bg, lastSave,
                           recon>>
       ELSE /\ session' = [session EXCEPT !.op = "export",
                                          !.doc = NoDocument,
                                          !.fellBack = FALSE,
                                          !.file = ExportedDocument(payload),
                                          !.exported = payload]
            /\ UNCHANGED <<formVars, status, serviceVars, now, save, bg,
                           lastSave, recon>>

\* the exported file is chosen in the import dialog
ImportExportedFile ==
  /\ session.file.kind = "object"
  /\ ImportConfig(session.file)

\* a header value with a quote, a backslash before the letter n and a tab
HeaderQuoted ==
  <<Header(<<"X", "-", "A">>, <<"a", "\"", "\\", "n", "\t", "b", " ">>),
    Header(<<"X", "-", "B">>, <<"2">>)>>

\* forms to export: blanks to trim and a repeated domain; a value with
\* characters JSON escapes, disabled, a wildcard domain; no domain and the
\* longest expiry; minutes with a fraction; no header row left after
\* trimming; a row without value
InterchangeForms ==
  { FormInput(HeaderB, TRUE, DomainsBA, "include_subdomains", <<"1">>),
    FormInput(HeaderQuoted, FALSE, <<"*", ".">> \o DomainA, "subdomains_only",
              <<>>),
    FormInput(HeaderA, TRUE, <<>>, "exact", <<"1", "4", "4", "0">>),
    FormInput(HeaderA, TRUE, DomainA, "exact", <<"1", ".", "5">>),
    FormInput(HeaderBlank, TRUE, DomainsAB, "include_subdomains", <<"2">>),
    FormInput(HeaderHalf, TRUE, DomainA, "exact", <<"1">>) }

\* files of other origin to import: no JSON, and a document with two
\* headers, two domains and the exact mode
InterchangeDocuments ==
  { UnparseableDocument,
    Document(ParsedArray(<<ParsedObject(ParsedString(<<"K">>),
                                        ParsedString(<<"1">>)),
                           ParsedObject(ParsedString(<<"M">>),
                                        ParsedString(<<>>))>>),
             SettingsGood.enabled, SettingsGood.domains,
             SettingsGood.domainMatchMode, ParsedNumber(15)) }

InterchangeInit ==
  /\ \E f \in InterchangeForms :
       /\ headers = f.headers
       /\ enabled = f.enabled
       /\ domainInput = f.domainInput
       /\ domainMatchMode = f.domainMatchMode
       /\ temporaryMinutesInput = f.temporaryMinutesInput
  /\ status = [msg |-> <<>>, type |-> "success"]
  /\ storage = EmptyStorage
  /\ dynamicRules = <<>>
  /\ alarm = NullInstant
  /\ now = MS_PER_MINUTE
  /\ save = IdleSave
  /\ bg = IdleBg
  /\ lastSave = NoLastSave
  /\ recon = NoRecon
  /\ session = LoadedSession

\* export, import and Save & Apply on the form as it stands; the import
\* and export handlers also run while saveConfig awaits a service, and the
\* popup is closed and opened again after a save
InterchangeNext ==
  \/ ExportConfig
  \/ ImportExportedFile
  \/ \E doc \in InterchangeDocuments : ImportConfig(doc)
  \/ ValidateRun
  \/ StorageSetResolved
  \/ GetDynamicRulesResolved
  \/ UpdateDynamicRulesResolved
  \/ ClearAlarmResolved
  \/ PopupClosed

SpecInterchange == InterchangeInit /\ [][InterchangeNext]_vars


(* ------------------------------------------------------------------ *)
(* updateRules on its own, from any installed rule table                *)
(* ------------------------------------------------------------------ *)

\* the most rules the table holds at the start
MaxInstalled == 2

ReconHeaderA == <<Header(<<"X", "-", "A">>, <<"1">>)>>
ReconHeaderA2 == <<Header(<<"X", "-", "A">>, <<"2">>)>>

\* rules the table may hold at the start: rules this program compiles, a
\* rule with another priority under an id the program does not use, and a
\* rule of an earlier version with its own resource types
InstalledPool ==
  { buildRule(1, ReconHeaderA, buildCondition(DomainA, "include_subdomains")),
    buildRule(2, ReconHeaderA, buildCondition(DomainB, "include_subdomains")),
    buildRule(1, ReconHeaderA, GlobalCondition),
    buildRule(1, ReconHeaderA2, buildCondition(DomainA, "include_subdomains")),
    [buildRule(7, ReconHeaderA, GlobalCondition) EXCEPT !.priority = 2],
    [buildRule(2, ReconHeaderA, buildCondition(DomainB, "include_subdomains"))
       EXCEPT !.condition.resourceTypes = <<"main_frame">>] }

\* the table never holds two rules with one id
InstalledTables ==
  { t \in UNION {[1..n -> InstalledPool] : n \in 0..MaxInstalled} :
      \A i, j \in DOMAIN t : i # j => t[i].id # t[j].id }

ReconHeaders == {<<>>, ReconHeaderA, ReconHeaderA2}

ReconDomains ==
  {<<>>, <<DomainA>>, <<DomainA, DomainB>>, <<DomainB, DomainA>>}

ReconInit ==
  /\ FormInit
  /\ storage = EmptyStorage
  /\ dynamicRules \in InstalledTables
  /\ alarm = NullInstant
  /\ now = MS_PER_MINUTE
  /\ save = IdleSave
  /\ bg = IdleBg
  /\ lastSave = NoLastSave
  /\ recon = NoRecon
  /\ session = LoadedSession

\* updateRules(validHeaders, ruleDomains, isEnabled, mode) from its first
\* line to its last, the service calls succeeding
UpdateRulesRun ==
  \E validHeaders \in ReconHeaders, ruleDomains \in ReconDomains,
     isEnabled \in BOOLEAN, mode \in MatchModes :
    LET existingRules == dynamicRules
        desiredRules == DesiredRules(validHeaders, ruleDomains, isEnabled, mode)
        removeRuleIds == RemoveRuleIds(existingRules, desiredRules)
        addRules == AddRules(existingRules, desiredRules)
        called == NeedsUpdate(removeRuleIds, addRules)
    IN /\ recon' = [ran |-> TRUE, existingRules |-> existingRules,
                    desiredRules |-> desiredRules,
                    removeRuleIds |-> removeRuleIds, addRules |-> addRules,
                    called |-> called]
       /\ dynamicRules' =
            IF called /\ ~DeltaCollides(dynamicRules, removeRuleIds, addRules)
              THEN ApplyDelta(dynamicRules, removeRuleIds, addRules)
              ELSE dynamicRules
       /\ UNCHANGED <<formVars, status, storage, alarm, now, save, bg, lastSave,
                      session>>

ReconNext == UpdateRulesRun

SpecRecon == ReconInit /\ [][ReconNext]_vars

(* ------------------------------------------------------------------ *)
(* Properties                                                           *)
(* ------------------------------------------------------------------ *)

\* what a rule says apart from its id
Content(rule) ==
  [priority |-> rule.priority, action |-> rule.action,
   condition |-> rule.condition]

\* some rule of others has the id of rule and says the same
HasSame(rule, others) ==
  \E i \in DOMAIN others :
    others[i].id = rule.id /\ Content(others[i]) = Content(rule)

\* the two sequences hold the same ids and, id by id, the same serialization
SameSerialized(existing, desired) ==
  /\ RuleIds(existing) = RuleIds(desired)
  /\ \A i \in DOMAIN existing, j \in DOMAIN desired :
       existing[i].id = desired[j].id
         => serializeRule(existing[i]) = serializeRule(desired[j])

\* C1: when the installed rules equal the desired rules (same ids, and for
\* each id the same serialized priority, action and condition), updateRules
\* computes an empty removeRuleIds and an empty addRules, makes no
\* updateDynamicRules call and leaves the table as it was.
C1_NoOpReconcile ==
  (recon.ran /\ SameSerialized(recon.existingRules, recon.desiredRules))
    => /\ recon.removeRuleIds = <<>>
       /\ recon.addRules = <<>>
       /\ ~recon.called
       /\ dynamicRules = recon.existingRules

C1_Witness ==
  /\ recon.ran
  /\ SameSerialized(recon.existingRules, recon.desiredRules)
  /\ Len(recon.existingRules) = 2

\* C2: removeRuleIds is exactly the ids of the installed rules that have no
\* desired rule of the same id saying the same, addRules is exactly the
\* desired rules that have no installed rule of the same id saying the same,
\* in the desired order; a rule that is on both sides with the same priority,
\* action and condition is in neither.
C2_ExactDelta ==
  recon.ran
    => /\ Range(recon.removeRuleIds) =
            { recon.existingRules[i].id :
                i \in { k \in DOMAIN recon.existingRules :
                          ~HasSame(recon.existingRules[k], recon.desiredRules) } }
       /\ Len(recon.removeRuleIds) = Cardinality(Range(recon.removeRuleIds))
       /\ recon.addRules =
            SelectSeq(recon.desiredRules,
                      LAMBDA rule : ~HasSame(rule, recon.existingRules))

\* a changed rule (same id, other content) next to an unchanged one
C2_Witness ==
  /\ recon.ran
  /\ \E i \in DOMAIN recon.existingRules :
       HasSame(recon.existingRules[i], recon.desiredRules)
  /\ \E i \in DOMAIN recon.existingRules :
       /\ recon.existingRules[i].id \in RuleIds(recon.desiredRules)
       /\ ~HasSame(recon.existingRules[i], recon.desiredRules)
  /\ Len(recon.removeRuleIds) = 1
  /\ Len(recon.addRules) = 1


SaveDone == save.pc = "done"

SaveApplied == save.pc = "done" /\ save.outcome = "applied"

\* C3: the rules updateRules compiles are none when enabled is false or no
\* header is left; otherwise one rule with id 1 and the global condition when
\* there is no domain; otherwise N rules with the ids 1..N for N distinct
\* domains.
C3_CompiledRuleCount ==
  save.compiled
    => LET d == save.desiredRules
           n == Len(save.validDomains)
       IN IF ~save.isEnabled \/ Len(save.validHeaders) = 0
            THEN Len(d) = 0
          ELSE IF n = 0
            THEN /\ Len(d) = 1
                 /\ d[1].id = 1
                 /\ d[1].condition.filterKey = "urlFilter"
                 /\ d[1].condition.filter = <<"*">>
          ELSE /\ Cardinality(Range(save.validDomains)) = n
               /\ Len(d) = n
               /\ {d[i].id : i \in DOMAIN d} = 1..n
               /\ \A i \in DOMAIN d : d[i].condition.filter # <<"*">>

C3_Witness ==
  /\ save.compiled
  /\ save.isEnabled
  /\ Len(save.validDomains) = 2
  /\ Len(save.desiredRules) = 2

\* the save in hand validated to the configuration of the last save that
\* went through, and nothing else has touched storage or rules since
RepeatedSave ==
  /\ save.prev.clean
  /\ save.prev.validHeaders = save.validHeaders
  /\ save.prev.validDomains = save.validDomains
  /\ save.prev.isEnabled = save.payload.enabled
  /\ save.prev.mode = save.payload.domainMatchMode

\* C4: saving the same valid configuration twice in a row compiles the same
\* rule sequence again, so the second save makes no updateDynamicRules call
\* and leaves the rule table as it was.
C4_RepeatedSaveIsNoOp ==
  (SaveApplied /\ RepeatedSave)
    => /\ save.desiredRules = save.prev.desiredRules
       /\ save.calls.updateDynamicRules = 0
       /\ save.removeRuleIds = <<>>
       /\ save.addRules = <<>>
       /\ dynamicRules = save.pre.dynamicRules

C4_Witness ==
  /\ SaveApplied
  /\ RepeatedSave
  /\ Len(save.desiredRules) = 2
  /\ dynamicRules # <<>>

\* the save in hand differs from the last save that went through only in the
\* order in which the same domains are listed
ReorderedSave ==
  /\ save.prev.clean
  /\ save.prev.validHeaders = save.validHeaders
  /\ save.prev.isEnabled = save.payload.enabled
  /\ save.prev.mode = save.payload.domainMatchMode
  /\ Range(save.prev.validDomains) = Range(save.validDomains)
  /\ save.validDomains # <<>>

\* C5: the ids 1..N go to the domains in sorted order: two inputs listing
\* the same domains in different orders compile to the same rule sequence,
\* and reconciling one against the other gives an empty delta.
C5_DomainOrderIrrelevant ==
  (save.compiled /\ ReorderedSave)
    => /\ save.desiredRules = save.prev.desiredRules
       /\ save.removeRuleIds = <<>>
       /\ save.addRules = <<>>

\* C6: when validation fails, saveConfig makes no service call at all:
\* storage, the rule table and the alarm are as they were.
C6_InvalidSaveTouchesNothing ==
  (SaveDone /\ save.outcome = "invalid")
    => /\ save.calls = NoCalls
       /\ Snapshot = save.pre
       /\ Len(save.statuses) = 1
       /\ save.statuses[1].type = "error"

C6_Witness ==
  /\ SaveDone
  /\ save.outcome = "invalid"
  /\ save.pre.alarm # NullInstant
  /\ save.pre.dynamicRules # <<>>
  /\ save.pre.storage.enabled

\* C7: when a persistence call or a rule-table call of a save fails, then
\* once the handler has returned, storage, the rule table and the alarm are
\* what they were before the save began.
C7_FailedSaveRestoresState ==
  (SaveDone /\ save.failedAt \in {"storageSet", "getDynamicRules",
                                  "updateDynamicRules"})
    => Snapshot = save.pre

EndsWith(msg, tail) ==
  /\ Len(msg) >= Len(tail)
  /\ SubSeq(msg, Len(msg) - Len(tail) + 1, Len(msg)) = tail

\* C8: when the updateDynamicRules call of a save fails, the save has made
\* that call once, the table is untouched, the one status it reports is an
\* error carrying the service's message, and no success is reported.
C8_UpdateFailureReported ==
  (SaveDone /\ save.failedAt = "updateDynamicRules")
    => /\ save.calls.updateDynamicRules = 1
       /\ dynamicRules = save.pre.dynamicRules
       /\ Len(save.statuses) = 1
       /\ save.statuses[1].type = "error"
       /\ EndsWith(save.statuses[1].msg, LastErrorMessage)
       /\ status = save.statuses[1]
       /\ save.outcome = "failed"

C8_Witness ==
  /\ SaveDone
  /\ save.failedAt = "updateDynamicRules"
  /\ save.addRules # <<>>
  /\ save.removeRuleIds # <<>>

\* a save that went through with enabled = true and minutes in 1..1440
TimedSaveApplied ==
  /\ SaveApplied
  /\ save.payload.enabled
  /\ save.temporaryMinutes >= 1
  /\ save.temporaryMinutes <= 1440

C9_PersistedAndArmed ==
  TimedSaveApplied
    => /\ storage.temporaryUntil = save.startedAt + save.temporaryMinutes * 60000
       /\ IF storage.temporaryUntil > save.syncedAt
            THEN alarm = storage.temporaryUntil
            ELSE alarm = NullInstant

\* the order part of C9: a save arms the alarm only for the instant that
\* storage already holds
C9_PersistedBeforeArmed ==
  (save.pc = "clearAlarm" /\ save'.outcome = "applied" /\ alarm' # NullInstant)
    => /\ "temporaryUntil" \in storage.keys
       /\ storage.temporaryUntil = alarm'

C10_UntimedSaveDisarms ==
  (SaveApplied /\ (~save.payload.enabled \/ save.temporaryMinutes = 0))
    => /\ storage.temporaryUntil = NullInstant
       /\ "temporaryUntil" \in storage.keys
       /\ alarm = NullInstant

C10_Witness ==
  /\ SaveApplied
  /\ ~save.payload.enabled
  /\ save.temporaryMinutes = 1
  /\ save.pre.alarm # NullInstant
  /\ alarm = NullInstant


(* ------------------------------------------------------------------ *)
(* The service worker's handlers                                        *)
(* ------------------------------------------------------------------ *)

BgDone == bg.pc = "done"

\* the persisted configuration is switched off without an expiry instant
\* and no rule is installed
Disabled ==
  /\ {"enabled", "temporaryUntil"} \subseteq storage.keys
  /\ ~storage.enabled
  /\ storage.temporaryUntil = NullInstant
  /\ dynamicRules = <<>>

\* C11: when the handler the expiry alarm started has run to its end
\* without a failed service call, storage holds enabled = false and
\* temporaryUntil = null, the rule table is empty and no alarm is armed.
C11_AlarmCallbackDisables ==
  (BgDone /\ bg.trigger = "alarm" /\ bg.outcome # "failed")
    => /\ bg.outcome = "fired"
       /\ Disabled
       /\ alarm = NullInstant

\* the alarm fired on an enabled configuration with rules installed
C11_Witness ==
  /\ BgDone
  /\ bg.trigger = "alarm"
  /\ bg.outcome = "fired"
  /\ bg.pre.storage.enabled
  /\ bg.pre.storage.temporaryUntil # NullInstant
  /\ Len(bg.pre.dynamicRules) = 2

\* the startup handler has read storage and found it enabled
StartupRead ==
  /\ bg.trigger = "startup"
  /\ bg.pc \notin {"idle", "sync_get"}
  /\ {"enabled", "temporaryUntil"} \subseteq bg.read.keys
  /\ bg.read.enabled
  /\ bg.read.temporaryUntil # NullInstant

StartupFoundExpired == StartupRead /\ bg.read.temporaryUntil <= bg.readAt

StartupFoundFuture == StartupRead /\ bg.read.temporaryUntil > bg.readAt

\* C12: when the startup handler finds the configuration enabled with an
\* expiry instant at or before the current time, it goes straight into the
\* disabling chain, arms no alarm, and when the chain has run to its end
\* without a failed service call the configuration is disabled, the rule
\* table is empty and no alarm is armed.
C12_StartupFiresExpired ==
  StartupFoundExpired
    => /\ bg.decision = "disable"
       /\ bg.pc \in {"disable_set", "disable_get", "disable_update", "done"}
       /\ alarm \in {NullInstant, bg.pre.alarm}
       /\ (BgDone /\ bg.outcome # "failed")
            => (bg.outcome = "fired" /\ Disabled /\ alarm = NullInstant)

\* the chain ran to its end on a configuration with rules installed
C12_Witness ==
  /\ StartupFoundExpired
  /\ BgDone
  /\ bg.outcome = "fired"
  /\ bg.pre.dynamicRules # <<>>

\* C13: when the startup handler finds the configuration enabled with an
\* expiry instant t in the future, it arms the alarm for exactly t and
\* leaves storage and the rule table as they were.
C13_StartupRearms ==
  StartupFoundFuture
    => /\ BgDone
       /\ bg.outcome = "armed"
       /\ alarm = bg.read.temporaryUntil
       /\ alarm = bg.pre.storage.temporaryUntil
       /\ storage = bg.pre.storage
       /\ dynamicRules = bg.pre.dynamicRules

\* the alarm was lost with the browser and the instant is more than a
\* minute after the start
C13_Witness ==
  /\ StartupFoundFuture
  /\ BgDone
  /\ bg.pre.alarm = NullInstant
  /\ bg.read.temporaryUntil = bg.readAt + 2 * MS_PER_MINUTE
  /\ dynamicRules # <<>>


(* ------------------------------------------------------------------ *)
(* The state at rest                                                    *)
(* ------------------------------------------------------------------ *)

\* no handler is between its first and its last service call
AtRest == ~BgInFlight /\ save.pc \in {"idle", "done"}

\* C15: the system is never at rest with the configuration enabled, a
\* persisted expiry instant that has passed, rules installed and no alarm
\* armed.
C15_ExpiredInstantNeverDropped ==
  AtRest
    => ~ /\ "enabled" \in storage.keys
         /\ storage.enabled
         /\ storage.temporaryUntil # NullInstant
         /\ storage.temporaryUntil <= now
         /\ dynamicRules # <<>>
         /\ alarm = NullInstant

\* C17: at rest, an armed alarm means the persisted configuration is
\* enabled and its temporaryUntil is the instant the alarm is armed for.
C17_ArmedMeansEnabledUntil ==
  (AtRest /\ alarm # NullInstant)
    => /\ {"enabled", "temporaryUntil"} \subseteq storage.keys
       /\ storage.enabled
       /\ storage.temporaryUntil = alarm

\* C18: a worker handler that started with no rule installed issues no
\* updateDynamicRules call.
C18_FireWithoutRulesIsNoOp ==
  (bg.trigger \in {"alarm", "startup"} /\ bg.pre.dynamicRules = <<>>)
    => bg.updateCalls = 0


(* ------------------------------------------------------------------ *)
(* Expiry as a liveness property                                        *)
(* ------------------------------------------------------------------ *)

\* a later save has started
LaterSave == save.pc \notin {"idle", "done"}

\* C14: after a save with enabled = true and expiry minutes > 0 has gone
\* through, unless a later save starts, the system eventually reaches a
\* state with enabled = false and temporaryUntil = null persisted and no
\* rule installed.
C14_TimedSaveEventuallyDisabled ==
  TimedSaveApplied ~> (Disabled \/ LaterSave)

\* the same for the saves that armed the alarm
ArmedSaveEventuallyDisabled ==
  (TimedSaveApplied /\ alarm # NullInstant) ~> (Disabled \/ LaterSave)


(* ------------------------------------------------------------------ *)
(* Serialization                                                        *)
(* ------------------------------------------------------------------ *)

SaveInFlight == save.pc \notin {"idle", "done"}

\* C16: a save never issues its storage write (storageSet) nor starts its
\* reconciliation (getDynamicRules) while a handler of the worker (timer
\* fire, startup synchronisation) is between its first and its last
\* service call.
C16_SavesSerialized ==
  [][(save'.pc # save.pc /\ save'.pc \in {"storageSet", "getDynamicRules"})
       => ~BgInFlight]_vars

\* the save and the worker's disabling chain have both read the same rule
\* table and both have an update of it pending
SharedSnapshot ==
  /\ save.pc = "updateDynamicRules"
  /\ bg.pc = "disable_update"
  /\ save.existingRules = dynamicRules
  /\ bg.removeRuleIds = [i \in 1..Len(dynamicRules) |-> dynamicRules[i].id]
  /\ dynamicRules # <<>>


(* ------------------------------------------------------------------ *)
(* Header rows in validation                                            *)
(* ------------------------------------------------------------------ *)

\* saveConfig has validated the form
Validated == save.pc # "idle"

Accepted == Validated /\ save.outcome = "running"

Rejected == Validated /\ save.outcome = "invalid"

TrimmedRow(row) == [key |-> Trim(row.key), value |-> Trim(row.value)]

IsBlankRow(row) == Trim(row.key) = <<>> /\ Trim(row.value) = <<>>

\* exactly one of key and value is empty after trimming
IsHalfRow(row) == (Trim(row.key) = <<>>) # (Trim(row.value) = <<>>)

SurvivingRows == SelectSeq(headers, LAMBDA row : ~IsBlankRow(row))

EmptyFieldError ==
  <<"All non-empty headers must include both key and value.">>

DuplicateKeyError(key) == <<"Duplicate header key: ">> \o key

\* surviving rows i < j whose keys are equal after case folding
SameFoldedKey(i, j) ==
  /\ i < j
  /\ ~IsBlankRow(headers[i])
  /\ ~IsBlankRow(headers[j])
  /\ ToLowerCase(Trim(headers[i].key)) = ToLowerCase(Trim(headers[j].key))

\* row j survives and fails a check of the header loop
RowFault(j) ==
  /\ ~IsBlankRow(headers[j])
  /\ \/ IsHalfRow(headers[j])
     \/ ~HEADER_NAME_RE(Trim(headers[j].key))
     \/ HasNewline(Trim(headers[j].value))
     \/ \E i \in 1..(j - 1) : SameFoldedKey(i, j)

\* no row before j fails a check
FirstFault(j) == RowFault(j) /\ \A i \in 1..(j - 1) : ~RowFault(i)

\* what validation reports for the rows without the blank ones
WithoutBlankRows ==
  validateConfig(SurvivingRows, domainInput, domainMatchMode,
                 temporaryMinutesInput)

\* blank rows are dropped without error: the outcome is that of the form
\* without them
BlankRowsDropped ==
  /\ Accepted <=> WithoutBlankRows.ok
  /\ Rejected => status.msg = WithoutBlankRows.error
  /\ Accepted => save.validHeaders = WithoutBlankRows.headers

\* the accepted headers are the trimmed surviving rows, in the form's order
AcceptedAreTrimmedSurvivors ==
  Accepted
    => save.validHeaders =
         [i \in 1..Len(SurvivingRows) |-> TrimmedRow(SurvivingRows[i])]

\* C19 as claimed: blank rows are dropped without error, any row with
\* exactly one empty field makes validation fail with the empty-field error,
\* and the accepted headers are the trimmed surviving rows in order.
C19_HalfRowAlwaysEmptyFieldError ==
  Validated
    => /\ BlankRowsDropped
       /\ (\E j \in DOMAIN headers : IsHalfRow(headers[j]))
            => (Rejected /\ status.msg = EmptyFieldError)
       /\ AcceptedAreTrimmedSurvivors

\* C19: blank rows are dropped without error; a row with exactly one empty
\* field makes validation fail, and the error is the empty-field error when
\* no earlier surviving row fails a check of its own; the accepted headers
\* are the trimmed surviving rows in order.
C19_HeaderRowsNormalized ==
  Validated
    => /\ BlankRowsDropped
       /\ \A j \in DOMAIN headers :
            IsHalfRow(headers[j])
              => /\ Rejected
                 /\ FirstFault(j) => status.msg = EmptyFieldError
       /\ AcceptedAreTrimmedSurvivors

\* three rows, the middle one blank, the others accepted after trimming
C19_AcceptedWitness ==
  /\ Accepted
  /\ Len(headers) = 3
  /\ IsBlankRow(headers[2])
  /\ Len(save.validHeaders) = 2
  /\ save.validHeaders[1] # headers[1]
  /\ save.validHeaders[1] = TrimmedRow(headers[1])

\* a row with an empty value is the first to fail
C19_Witness ==
  /\ Rejected
  /\ \E j \in DOMAIN headers : IsHalfRow(headers[j]) /\ FirstFault(j)
  /\ \E j \in DOMAIN headers : ~IsHalfRow(headers[j]) /\ RowFault(j)

AcceptedKeysDistinct ==
  Accepted
    => \A i, j \in DOMAIN save.validHeaders :
         i # j => ToLowerCase(save.validHeaders[i].key)
                    # ToLowerCase(save.validHeaders[j].key)

\* C20 as claimed: two surviving rows with keys equal after case folding
\* make validation fail with the duplicate-header-key error, and accepted
\* keys are pairwise distinct after case folding.
C20_DuplicateAlwaysDuplicateError ==
  Validated
    => /\ \A i, j \in DOMAIN headers :
            (SameFoldedKey(i, j) /\ Trim(headers[i].key) # <<>>)
              => /\ Rejected
                 /\ \E k \in DOMAIN headers :
                      status.msg = DuplicateKeyError(Trim(headers[k].key))
       /\ AcceptedKeysDistinct

\* C20: two surviving rows with keys equal after case folding make
\* validation fail; the error is the duplicate-header-key error, naming
\* the later key, when the later row is the first row to fail a check and
\* fails no other; accepted keys are pairwise distinct after case folding.
C20_DuplicateKeysRejected ==
  Validated
    => /\ \A i, j \in DOMAIN headers :
            SameFoldedKey(i, j)
              => /\ Rejected
                 /\ ( /\ FirstFault(j)
                      /\ ~IsHalfRow(headers[j])
                      /\ HEADER_NAME_RE(Trim(headers[j].key))
                      /\ ~HasNewline(Trim(headers[j].value)) )
                      => status.msg = DuplicateKeyError(Trim(headers[j].key))
       /\ AcceptedKeysDistinct

\* keys A and a, both with a value
C20_Witness ==
  /\ Rejected
  /\ Len(headers) = 2
  /\ SameFoldedKey(1, 2)
  /\ Trim(headers[1].key) # Trim(headers[2].key)
  /\ status.msg = DuplicateKeyError(Trim(headers[2].key))


(* ------------------------------------------------------------------ *)
(* Header names and values in validation                                *)
(* ------------------------------------------------------------------ *)

\* the characters of an HTTP token (RFC 7230 tchar)
TokenSet ==
  {"!", "#", "$", "%", "&", "'", "*", "+", "-", ".", "^", "_", GraveAccent,
   "|", "~"} \cup Digits \cup LowerLetters \cup UpperLetters

IsToken(key) == key # <<>> /\ \A i \in DOMAIN key : key[i] \in TokenSet

HasLineBreak(value) == \E i \in DOMAIN value : value[i] \in {"\r", "\n"}

InvalidHeaderNameError(key) == <<"Invalid header key: ">> \o key

InvalidHeaderValueError(key) ==
  <<"Invalid header value for ">> \o key
    \o <<": newline characters are not allowed.">>

\* every accepted header has a token for key and no line break in its value
AcceptedHeadersWellFormed ==
  Accepted
    => \A i \in DOMAIN save.validHeaders :
         /\ IsToken(save.validHeaders[i].key)
         /\ save.validHeaders[i].value # <<>>
         /\ ~HasLineBreak(save.validHeaders[i].value)

\* C21 as claimed: accepted headers have token keys and values without line
\* break; any surviving row whose trimmed key has a character outside the
\* token set fails with the invalid-header-name error, and any whose trimmed
\* value has a line break fails with the invalid-header-value error.
C21_BadRowAlwaysOwnError ==
  Validated
    => /\ AcceptedHeadersWellFormed
       /\ \A j \in DOMAIN headers :
            LET row == TrimmedRow(headers[j])
            IN /\ (row.key # <<>> /\ ~IsToken(row.key))
                    => (Rejected /\ status.msg = InvalidHeaderNameError(row.key))
               /\ HasLineBreak(row.value)
                    => (Rejected /\ status.msg = InvalidHeaderValueError(row.key))

\* C21: accepted headers have token keys and values without line break; a
\* surviving row whose trimmed key has a character outside the token set, or
\* whose trimmed value has a line break, makes validation fail; when it is
\* the first row to fail a check and neither field is empty, the error is
\* the invalid-header-name error for a bad key, and the invalid-header-value
\* error for a line break under a good key.
C21_HeaderGrammarEnforced ==
  Validated
    => /\ AcceptedHeadersWellFormed
       /\ \A j \in DOMAIN headers :
            LET row == TrimmedRow(headers[j])
                first == FirstFault(j) /\ ~IsHalfRow(headers[j])
            IN /\ (row.key # <<>> /\ ~IsToken(row.key))
                    => /\ Rejected
                       /\ first => status.msg = InvalidHeaderNameError(row.key)
               /\ HasLineBreak(row.value)
                    => /\ Rejected
                       /\ (first /\ IsToken(row.key))
                            => status.msg = InvalidHeaderValueError(row.key)

\* a good row, then a row with a blank inside its key and a line break in
\* its value: the key is reported
C21_Witness ==
  /\ Rejected
  /\ Len(headers) = 2
  /\ ~RowFault(1)
  /\ ~IsToken(Trim(headers[2].key))
  /\ Trim(headers[2].key) # <<>>
  /\ HasLineBreak(Trim(headers[2].value))
  /\ status.msg = InvalidHeaderNameError(Trim(headers[2].key))

(* ------------------------------------------------------------------ *)
(* Domain text                                                          *)
(* ------------------------------------------------------------------ *)

\* validation let the form through (the save may have run on since)
PassedValidation == Validated /\ save.outcome # "invalid"

UpperOf(c) ==
  IF c \in LowerLetters THEN CHOOSE u \in UpperLetters : LowerOf(u) = c ELSE c

ToUpperCase(s) == [i \in 1..Len(s) |-> UpperOf(s[i])]

\* the same text with blanks around every token
RECURSIVE PadTokens(_)
PadTokens(s) ==
  IF s = <<>> THEN <<" ">>
  ELSE IF Head(s) \in {",", "\n"}
    THEN <<"\t", Head(s), " ">> \o PadTokens(Tail(s))
    ELSE <<Head(s)>> \o PadTokens(Tail(s))

\* the same text with each comma turned into a line break and back
SwapSeparators(s) ==
  [i \in 1..Len(s) |->
     IF s[i] = "," THEN "\n" ELSE IF s[i] = "\n" THEN "," ELSE s[i]]

\* texts that differ from s only in letter case, surrounding white space,
\* separator choice or repetition of its domains
DomainTextVariants(s) ==
  { ToUpperCase(s), <<" ">> \o PadTokens(s), SwapSeparators(s),
    s \o <<",">> \o s, s \o <<"\n">> \o ToUpperCase(s) }

InvalidDomainError(domain) == <<"Invalid domain pattern: ">> \o domain

UnsupportedModeError(domain) ==
  <<"Subdomains-only mode does not support ">> \o domain \o <<".">>

HeadersFault == \E j \in DOMAIN headers : RowFault(j)

\* localhost, an IPv4 literal, or a host with an optional wildcard prefix
IsDomainPattern(token) ==
  token = LOCALHOST \/ IPV4_RE(token) \/ HOST_RE(token)

\* no token before the k-th is refused by the domain loop
FirstDomainFault(parsed, k) ==
  \A i \in 1..(k - 1) :
    /\ IsDomainPattern(parsed[i])
    /\ ~(domainMatchMode = "subdomains_only"
           /\ (parsed[i] = LOCALHOST \/ IPV4_RE(parsed[i])))

\* C22 as stated, with header rows that pass: any token outside the domain
\* grammar fails validation with the invalid-domain-pattern error for one
\* such token.
C22_InvalidTokenAlwaysDomainError ==
  (Validated /\ ~HeadersFault)
    => LET parsed == parseDomains(domainInput)
       IN (\E k \in DOMAIN parsed : ~IsDomainPattern(parsed[k]))
            => /\ Rejected
               /\ \E k \in DOMAIN parsed :
                    /\ ~IsDomainPattern(parsed[k])
                    /\ status.msg = InvalidDomainError(parsed[k])

\* C22: the parsed domain list holds no empty, padded, non-lowercase or
\* repeated entry and is what an accepted save works with; texts that differ
\* only in letter case, surrounding white space, separator choice or
\* repetition parse to the same domain set; a token outside the domain
\* grammar fails validation, with the invalid-domain-pattern error for the
\* first such token when no header row and no earlier token is refused.
C22_DomainsNormalized ==
  Validated
    => LET parsed == parseDomains(domainInput)
       IN /\ \A i \in DOMAIN parsed :
               /\ parsed[i] # <<>>
               /\ Trim(parsed[i]) = parsed[i]
               /\ ToLowerCase(parsed[i]) = parsed[i]
               /\ \A j \in DOMAIN parsed : parsed[j] = parsed[i] => j = i
          /\ \A variant \in DomainTextVariants(domainInput) :
               Range(parseDomains(variant)) = Range(parsed)
          /\ PassedValidation
               => /\ save.validDomains = parsed
                  /\ \A i \in DOMAIN parsed : IsDomainPattern(parsed[i])
          /\ \A k \in DOMAIN parsed :
               ~IsDomainPattern(parsed[k])
                 => /\ Rejected
                    /\ (~HeadersFault /\ FirstDomainFault(parsed, k))
                         => status.msg = InvalidDomainError(parsed[k])

\* a host typed twice, in upper case between blanks and behind a line break,
\* is accepted as one lowercase domain
C22_Witness ==
  /\ PassedValidation
  /\ Len(save.validDomains) = 1
  /\ save.validDomains[1] = DomainA
  /\ domainInput # DomainA
  /\ \E i \in DOMAIN domainInput : domainInput[i] = "A"
  /\ \E i \in DOMAIN domainInput : domainInput[i] = "\n"

\* a valid host and then a token outside the grammar: the token is reported
C22_RejectedWitness ==
  /\ Rejected
  /\ ~HeadersFault
  /\ Len(parseDomains(domainInput)) = 2
  /\ parseDomains(domainInput)[1] = DomainA
  /\ status.msg = InvalidDomainError(DomainBad)

(* ------------------------------------------------------------------ *)
(* Subdomains-only mode and hosts without subdomains                    *)
(* ------------------------------------------------------------------ *)

HasNoSubdomains(domain) == domain = LOCALHOST \/ IPV4_RE(domain)

HttpsUrl(host) == UrlText(Url(<<"h", "t", "t", "p", "s">>, host, <<>>, <<"/">>))

\* a condition that lets the subdomains of host through but not host itself
IsSubdomainsOnlyFor(condition, host) ==
  /\ ConditionMatches(condition, HttpsUrl(<<"x", ".">> \o host))
  /\ ~ConditionMatches(condition, HttpsUrl(host))

RulesSeen == Range(save.desiredRules) \cup Range(dynamicRules)

\* With the form left alone while the save runs: in subdomains_only mode a
\* domain list holding localhost or an IPv4 literal fails validation
\* whatever the headers and the expiry are, and nothing is written.
SubdomainsOnlyRefusesBareHosts ==
  (Validated /\ domainMatchMode = "subdomains_only"
     /\ \E d \in Range(parseDomains(domainInput)) : HasNoSubdomains(d))
    => /\ Rejected
       /\ storage = EmptyStorage
       /\ dynamicRules = <<>>

\* C23: no compiled or installed rule carries a subdomains-only condition
\* for localhost or for an IPv4 literal.
C23_NoSubdomainsOnlyRuleForBareHost ==
  \A rule \in RulesSeen :
    \A host \in {LOCALHOST, Ipv4Literal} :
      ~IsSubdomainsOnlyFor(rule.condition, host)

\* localhost saved in another mode, the selector set to subdomains_only
\* before storageSet resolved, and the rule installed
C23_Witness ==
  /\ save.pc = "done"
  /\ save.outcome = "applied"
  /\ save.validDomains = <<LOCALHOST>>
  /\ save.mode = "subdomains_only"
  /\ \E rule \in Range(dynamicRules) :
       IsSubdomainsOnlyFor(rule.condition, LOCALHOST)

(* ------------------------------------------------------------------ *)
(* Expiry minutes                                                       *)
(* ------------------------------------------------------------------ *)

InvalidExpiryMinutesError ==
  <<"Temporary minutes must be an integer between 0 and 1440.">>

\* digits only
IsPlainInteger(t) == IsDigits(t)

\* digits that spell n, with at most a fraction of zeros behind them
SpellsInteger(t, n) ==
  \E k \in 1..Len(t) :
    /\ IsDigits(SubSeq(t, 1, k))
    /\ DecimalValue(SubSeq(t, 1, k)) = n
    /\ k = Len(t)
         \/ /\ k + 1 < Len(t)
            /\ t[k + 1] = "."
            /\ \A i \in (k + 2)..Len(t) : t[i] = "0"

\* the text is a number whose value is the integer n >= 0 (minus zero is
\* zero)
DenotesInteger(t, n) ==
  \/ SpellsInteger(t, n)
  \/ Len(t) > 1 /\ Head(t) = "-" /\ n = 0 /\ SpellsInteger(Tail(t), 0)

\* whatever is accepted lies in [0, 1440], and a refused field is reported
\* with the minutes error
AcceptedMinutesInRange ==
  /\ PassedValidation
       => save.temporaryMinutes \in 0..MAX_TEMPORARY_MINUTES
  /\ Rejected => status.msg = InvalidExpiryMinutesError

\* C24: a blank field means 0; a field holding an integer in [0, 1440] is
\* accepted as that integer; every other field is refused with the minutes
\* error; so the minutes accepted are always the number the user typed.
C24_AcceptedMinutesAreTyped ==
  Validated
    => LET t == Trim(temporaryMinutesInput)
       IN /\ t = <<>> => (PassedValidation /\ save.temporaryMinutes = 0)
          /\ (IsPlainInteger(t) /\ DecimalValue(t) <= MAX_TEMPORARY_MINUTES)
               => (PassedValidation /\ save.temporaryMinutes = DecimalValue(t))
          /\ (PassedValidation /\ t # <<>>)
               => DenotesInteger(t, save.temporaryMinutes)
          /\ Rejected => status.msg = InvalidExpiryMinutesError

\* one and a half minutes typed, one minute accepted
C24_Witness ==
  /\ PassedValidation
  /\ temporaryMinutesInput = <<"1", ".", "5">>
  /\ save.temporaryMinutes = 1

(* ------------------------------------------------------------------ *)
(* What the compiled conditions match                                   *)
(* ------------------------------------------------------------------ *)

\* the host a domain pattern stands for: the pattern without a leading "*."
HostOf(pattern) ==
  IF StartsWith(pattern, <<"*", ".">>) THEN Drop(pattern, 2) ELSE pattern

\* the host with every dot turned into another character
Undotted(host) == [i \in 1..Len(host) |-> IF host[i] = "." THEN "x" ELSE host[i]]

\* hosts to probe a condition for host with: the host, subdomains one and
\* two labels deep, an empty label, a longer name ending in the host, the
\* host with its dots replaced (alone and as a subdomain's parent), and a
\* name the host is a prefix of
ProbeHosts(host) ==
  { host, <<"x", ".">> \o host, <<"x", ".", "y", ".">> \o host,
    <<".">> \o host, <<"x", ".", ".">> \o host, <<"b">> \o host,
    Undotted(host), <<"x", ".">> \o Undotted(host), host \o <<".", "c", "c">> }

ProbeSchemes ==
  { <<"h", "t", "t", "p">>, <<"h", "t", "t", "p", "s">>, <<"f", "t", "p">> }

\* no port, a numeric port, a port that is not a number
ProbePorts == { <<>>, <<":", "8", "0">>, <<":", "x">> }

ProbePaths == { <<>>, <<"/">>, <<"/", "p">> }

ProbeUrls(host) ==
  { Url(scheme, h, port, path) :
      scheme \in ProbeSchemes, h \in ProbeHosts(host), port \in ProbePorts,
      path \in ProbePaths }

\* http or https, then an optional numeric port after the host, then a slash
WebUrlWithPath(u) ==
  /\ u.scheme \in { <<"h", "t", "t", "p">>, <<"h", "t", "t", "p", "s">> }
  /\ u.port = <<>> \/ (Len(u.port) > 1 /\ IsDigits(Tail(u.port)))
  /\ u.path # <<>>
  /\ Head(u.path) = "/"

\* name is one or more non-empty labels, a dot, and host
IsProperSubdomain(name, host) ==
  \E k \in 1..(Len(name) - Len(host) - 1) :
    /\ Drop(name, k + 1) = host
    /\ name[k + 1] = "."
    /\ \A label \in Range(Split(SubSeq(name, 1, k), {"."})) : label # <<>>

\* the rules of the save in hand, once compiled, each with its domain
CompiledFor(mode) ==
  IF save.compiled /\ save.mode = mode /\ Len(save.validDomains) > 0
    THEN DOMAIN save.desiredRules
    ELSE {}

\* C25: in exact mode the condition compiled for a domain matches a URL
\* exactly when the URL is http or https, then the host itself, character
\* for character, then an optional numeric port, then a slash; subdomains
\* and other names containing the host are not matched.
C25_ExactMatchesHostOnly ==
  \A i \in CompiledFor("exact") :
    LET host == HostOf(save.validDomains[i])
    IN \A u \in ProbeUrls(host) :
         ConditionMatches(save.desiredRules[i].condition, UrlText(u))
           <=> (WebUrlWithPath(u) /\ u.host = host)

\* a.io saved in exact mode and installed: its rule matches a.io with a port
\* and matches neither x.a.io nor axio
C25_Witness ==
  /\ save.pc = "done"
  /\ save.outcome = "applied"
  /\ save.mode = "exact"
  /\ save.validDomains = <<DomainA>>
  /\ dynamicRules = save.desiredRules
  /\ ConditionMatches(dynamicRules[1].condition,
       UrlText(Url(<<"h", "t", "t", "p">>, DomainA, <<":", "8", "0">>,
                   <<"/", "p">>)))
  /\ ~ConditionMatches(dynamicRules[1].condition,
        HttpsUrl(<<"x", ".">> \o DomainA))
  /\ ~ConditionMatches(dynamicRules[1].condition, HttpsUrl(Undotted(DomainA)))

\* C26: in subdomains_only mode the condition compiled for a domain matches
\* a URL exactly when the URL is http or https, then one or more non-empty
\* labels, a dot and the host, then an optional numeric port, then a slash;
\* the bare host is never matched.
C26_SubdomainsOnlyNeedsLabel ==
  \A i \in CompiledFor("subdomains_only") :
    LET host == HostOf(save.validDomains[i])
    IN \A u \in ProbeUrls(host) :
         /\ ConditionMatches(save.desiredRules[i].condition, UrlText(u))
              <=> (WebUrlWithPath(u) /\ IsProperSubdomain(u.host, host))
         /\ u.host = host
              => ~ConditionMatches(save.desiredRules[i].condition, UrlText(u))

\* a.io saved in subdomains_only mode and installed: its rule matches x.a.io
\* and x.y.a.io and not a.io
C26_Witness ==
  /\ save.pc = "done"
  /\ save.outcome = "applied"
  /\ save.mode = "subdomains_only"
  /\ save.validDomains = <<DomainA>>
  /\ dynamicRules = save.desiredRules
  /\ ConditionMatches(dynamicRules[1].condition,
       HttpsUrl(<<"x", ".">> \o DomainA))
  /\ ConditionMatches(dynamicRules[1].condition,
       HttpsUrl(<<"x", ".", "y", ".">> \o DomainA))
  /\ ~ConditionMatches(dynamicRules[1].condition, HttpsUrl(DomainA))

\* the form of the example: one valid header, example.com, hosts and
\* subdomains, no expiry, enabled
ExampleForm ==
  /\ headers = HeaderA
  /\ enabled
  /\ domainInput = ExampleCom
  /\ domainMatchMode = "include_subdomains"
  /\ temporaryMinutesInput = <<"0">>

ExampleSaved == ExampleForm /\ save.pc = "done" /\ save.outcome = "applied"

ApiExampleCom == <<"a", "p", "i", ".">> \o ExampleCom

\* example.com, two of its subdomains, a longer name ending in its
\* characters, a name it is a prefix of, the host with its dot replaced,
\* and another host
ExampleProbeHosts ==
  { ExampleCom, ApiExampleCom, <<"x", ".", "y", ".">> \o ExampleCom,
    <<"b">> \o ExampleCom, ExampleCom \o <<".", "c", "c">>,
    Undotted(ExampleCom), DomainA }

\* C27: the save of the example form installs exactly one rule, with id 1,
\* whose condition is the host-prefix filter for example.com and not the
\* global filter: it matches requests to example.com and to api.example.com
\* and not to other hosts; no alarm is armed and temporaryUntil is null.
C27_ExampleInstallsOneHostRule ==
  ExampleSaved
    => /\ Len(dynamicRules) = 1
       /\ dynamicRules[1].id = 1
       /\ dynamicRules[1].condition # GlobalCondition
       /\ dynamicRules[1].condition.filterKey = "urlFilter"
       /\ dynamicRules[1].condition.filter
            = <<"|", "|">> \o ExampleCom \o <<"/">>
       /\ \A host \in ExampleProbeHosts :
            ConditionMatches(dynamicRules[1].condition, HttpsUrl(host))
              <=> (host = ExampleCom \/ IsProperSubdomain(host, ExampleCom))
       /\ alarm = NullInstant
       /\ save.temporaryUntil = NullInstant
       /\ save.calls.createAlarm = 0
       /\ "temporaryUntil" \in storage.keys
       /\ storage.temporaryUntil = NullInstant

\* the example saved, its rule matching example.com and api.example.com
C27_Witness ==
  /\ ExampleSaved
  /\ Len(dynamicRules) = 1
  /\ ConditionMatches(dynamicRules[1].condition, HttpsUrl(ExampleCom))
  /\ ConditionMatches(dynamicRules[1].condition, HttpsUrl(ApiExampleCom))
  /\ alarm = NullInstant

\* C28: a leading "*." is stripped before compiling: for every accepted
\* host and every match mode the patterns *.h and h compile to the same
\* condition, and two entries of one list that differ only in the prefix get
\* rules with the same condition.
C28_WildcardPrefixIrrelevant ==
  (save.compiled /\ Len(save.validDomains) > 0)
    => \A i \in DOMAIN save.desiredRules :
         LET host == HostOf(save.validDomains[i])
         IN /\ \A mode \in MatchModes :
                 buildCondition(<<"*", ".">> \o host, mode)
                   = buildCondition(host, mode)
            /\ save.desiredRules[i].condition
                 = buildCondition(host, save.mode)
            /\ \A j \in DOMAIN save.desiredRules :
                 HostOf(save.validDomains[j]) = host
                   => save.desiredRules[j].condition
                        = save.desiredRules[i].condition

\* a.io and *.a.io saved together: two rules, one condition
C28_Witness ==
  /\ save.pc = "done"
  /\ save.outcome = "applied"
  /\ Len(save.validDomains) = 2
  /\ save.validDomains[1] # save.validDomains[2]
  /\ HostOf(save.validDomains[1]) = HostOf(save.validDomains[2])
  /\ dynamicRules = save.desiredRules
  /\ dynamicRules[1].condition = dynamicRules[2].condition

(* ------------------------------------------------------------------ *)
(* Import                                                               *)
(* ------------------------------------------------------------------ *)

\* importConfig has just run on a document that parsed as an object
ImportedObject == session.op = "import" /\ session.doc.kind = "object"

\* the entry is an object with a string key and a string value
WellFormedHeader(item) ==
  /\ item.type = "object"
  /\ item.key.type = "string"
  /\ item.value.type = "string"

\* the well-formed entries of the document's header list, in order
RECURSIVE WellFormedRows(_)
WellFormedRows(items) ==
  IF items = <<>> THEN <<>>
  ELSE (IF WellFormedHeader(Head(items))
          THEN <<Header(Head(items).key.text, Head(items).value.text)>>
          ELSE <<>>) \o WellFormedRows(Tail(items))

DocumentRows(doc) ==
  IF doc.headers.type = "array" THEN WellFormedRows(doc.headers.items) ELSE <<>>

\* the string entries of the document's domain list, in order
RECURSIVE StringEntries(_)
StringEntries(items) ==
  IF items = <<>> THEN <<>>
  ELSE (IF Head(items).type = "string" THEN <<Head(items).text>> ELSE <<>>)
         \o StringEntries(Tail(items))

DocumentDomains(doc) ==
  IF doc.domains.type = "array" THEN StringEntries(doc.domains.items) ELSE <<>>

\* C29: import of a document that parsed as an object reports success
\* whatever its entries are; the well-formed header entries are kept in
\* order and the others dropped; the string entries of the domain list are
\* kept, one per line; the mode is the document's if it is one of the three
\* and include_subdomains otherwise; enabled is the document's if it is a
\* boolean and true otherwise; the minutes are an integer in [0, 1440].
C29_ImportToleratesMalformedEntries ==
  ImportedObject
    => LET doc == session.doc
           rows == DocumentRows(doc)
       IN /\ status = Reported(ImportedMessage, "success")
          /\ rows # <<>> => headers = rows
          /\ rows = <<>> => Len(headers) = 1
          /\ domainInput = Join(DocumentDomains(doc), <<"\n">>)
          /\ Split(domainInput, {"\n"})
               = (IF DocumentDomains(doc) = <<>> THEN << <<>> >>
                                                 ELSE DocumentDomains(doc))
          /\ domainMatchMode \in MatchModes
          /\ domainMatchMode =
               (IF doc.domainMatchMode.type = "string"
                     /\ \E mode \in MatchModes :
                          doc.domainMatchMode.text = <<mode>>
                  THEN doc.domainMatchMode.text[1]
                  ELSE "include_subdomains")
          /\ enabled = (IF doc.enabled.type = "boolean" THEN doc.enabled.bool
                                                        ELSE TRUE)
          /\ IsDigits(temporaryMinutesInput)
          /\ DecimalValue(temporaryMinutesInput) \in 0..MAX_TEMPORARY_MINUTES
          /\ ~parseTemporaryMinutes(temporaryMinutesInput).isNull
          /\ (doc.temporaryMinutes.type = "number" /\ doc.temporaryMinutes.finite
                /\ doc.temporaryMinutes.tenths \in 0..(10 * MAX_TEMPORARY_MINUTES))
               => LET shown == 10 * DecimalValue(temporaryMinutesInput)
                  IN /\ shown - doc.temporaryMinutes.tenths <= 5
                     /\ doc.temporaryMinutes.tenths - shown < 5

\* a list of three entries, the middle one without value, a domain list with
\* a number in it, a mode that is none, enabled null and 1440.5 minutes:
\* two rows, two domains, the defaults and 1440
C29_Witness ==
  /\ ImportedObject
  /\ session.doc.headers.type = "array"
  /\ Len(session.doc.headers.items) = 3
  /\ Len(headers) = 2
  /\ session.doc.domains.type = "array"
  /\ Len(session.doc.domains.items) = 3
  /\ domainInput = DomainA \o <<"\n">> \o DomainB
  /\ session.doc.domainMatchMode.type = "string"
  /\ domainMatchMode = "include_subdomains"
  /\ session.doc.enabled.type = "null"
  /\ enabled
  /\ session.doc.temporaryMinutes.type = "number"
  /\ session.doc.temporaryMinutes.tenths > 10 * MAX_TEMPORARY_MINUTES
  /\ temporaryMinutesInput = <<"1", "4", "4", "0">>

\* C30: whenever the form falls back to the default header list, it holds
\* exactly one row whose key and value are empty.
C30_FallbackIsOneBlankRow ==
  session.fellBack => headers = <<Header(<<>>, <<>>)>>

\* a letter typed into the first row, then a document without header list
\* imported: the form keeps the row that was typed
ImportFellBackOnEditedRow ==
  /\ session.fellBack
  /\ session.op = "import"
  /\ session.doc.kind = "object"
  /\ session.doc.headers.type = "undefined"
  /\ headers = <<Header(<<"A">>, <<"A">>)>>

\* a letter typed into the key of the first row, then the row removed: the
\* form falls back to the default list and the letter is still there
C30_Witness ==
  /\ session.fellBack
  /\ session.op = "remove"
  /\ Len(headers) = 1
  /\ headers[1].key = <<"A">>


(* ------------------------------------------------------------------ *)
(* Import of a text that is no JSON                                     *)
(* ------------------------------------------------------------------ *)

\* C31: an import whose text does not parse as JSON reports the one import
\* error and leaves the header rows, the enabled flag, the domain text,
\* the match mode and the expiry minutes as they were.
C31_UnparseableImportChangesNothing ==
  [][session'.op = "import" /\ session'.doc = UnparseableDocument
       => /\ UNCHANGED formVars
          /\ status' = Reported(ImportFailedMessage, "error")]_vars

\* a text that is no JSON was imported into a form that held two rows, a
\* domain text, the exact mode and an expiry, and the form still holds them
C31_Witness ==
  /\ session.op = "import"
  /\ session.doc = UnparseableDocument
  /\ status = Reported(ImportFailedMessage, "error")
  /\ Len(headers) = 2
  /\ ~enabled
  /\ domainInput # <<>>
  /\ domainMatchMode = "exact"
  /\ temporaryMinutesInput = <<"2">>


(* ------------------------------------------------------------------ *)
(* Export followed by import                                            *)
(* ------------------------------------------------------------------ *)

\* the form was last set by an import of the file exportConfig downloaded,
\* and the configuration exported had a header
ImportedOwnExport ==
  /\ session.op = "import"
  /\ session.file.kind = "object"
  /\ session.doc = session.file
  /\ Len(session.exported.headers) >= 1

\* C32: importing the document exportConfig produced from a valid
\* configuration with at least one header sets the form to the enabled
\* flag, the header sequence, the domain set, the match mode and the
\* expiry minutes that were exported, and validating the form again gives
\* the exported configuration.
C32_ImportOfExportRestoresConfiguration ==
  ImportedOwnExport =>
    LET exported == session.exported
        again == validateConfig(headers, domainInput, domainMatchMode,
                                temporaryMinutesInput)
    IN /\ enabled = exported.enabled
       /\ headers = exported.headers
       /\ Range(SelectSeq(Split(domainInput, {"\n"}),
                          LAMBDA line : line # <<>>))
            = Range(exported.domains)
       /\ domainMatchMode = exported.domainMatchMode
       /\ temporaryMinutesInput = NumberToString(exported.temporaryMinutes)
       /\ again.ok
       /\ ExportPayload(enabled, again, domainMatchMode) = exported

\* a disabled configuration with two headers, one with a quote, a backslash
\* and a tab in its value, and a wildcard domain has come back from its file
C32_Witness ==
  /\ ImportedOwnExport
  /\ session.exported.headers = normalizeHeaders(HeaderQuoted)
  /\ headers[1].value = <<"a", "\"", "\\", "n", "\t", "b">>
  /\ session.exported.domains = <<<<"*", ".">> \o DomainA>>
  /\ ~enabled
  /\ domainMatchMode = "subdomains_only"
  /\ temporaryMinutesInput = <<"0">>


(* ------------------------------------------------------------------ *)
(* What import and export leave alone                                   *)
(* ------------------------------------------------------------------ *)

\* the steps of saveConfig that complete a service call
SaveServiceStep ==
  /\ save.outcome = "running"
  /\ save.pc \in {"storageSet", "updateDynamicRules", "clearAlarm"}
  /\ save' # save

\* C40: a step of importConfig or exportConfig, whether it succeeds or
\* fails, leaves the persisted state, the rule table and the alarm as they
\* are and issues no service call; they change only in steps of a save that
\* passed validation.
C40_ImportExportTouchNoService ==
  [][/\ session'.op \in {"import", "export"} /\ save' = save
          => UNCHANGED <<storage, dynamicRules, alarm>>
     /\ <<storage, dynamicRules, alarm>>' # <<storage, dynamicRules, alarm>>
          => SaveServiceStep]_vars

\* a configuration was saved with an expiry, exported, and a document with
\* other headers has been imported: storage, rules and alarm still hold
\* what was saved
C40_Witness ==
  /\ session.op = "import"
  /\ session.doc.kind = "object"
  /\ session.doc # session.file
  /\ session.file.kind = "object"
  /\ save.pc = "done"
  /\ storage.headers = normalizeHeaders(HeaderB)
  /\ normalizeHeaders(headers) # storage.headers
  /\ dynamicRules # <<>>
  /\ alarm # NullInstant


(* ------------------------------------------------------------------ *)
(* The delta applied to any installed table                             *)
(* ------------------------------------------------------------------ *)

\* C33: whatever rules are installed, under whatever ids, the delta of
\* updateRules adds no rule whose id stays installed, and removing
\* removeRuleIds and then adding addRules leaves exactly the desired rules
\* in the table (which is also what the table holds after the run).
C33_DeltaYieldsDesiredTable ==
  recon.ran
    => LET after == ApplyDelta(recon.existingRules, recon.removeRuleIds,
                               recon.addRules)
       IN /\ \A i \in DOMAIN recon.addRules :
               \/ recon.addRules[i].id \notin RuleIds(recon.existingRules)
               \/ recon.addRules[i].id \in Range(recon.removeRuleIds)
          /\ ~DeltaCollides(recon.existingRules, recon.removeRuleIds,
                            recon.addRules)
          /\ Range(after) = Range(recon.desiredRules)
          /\ Len(after) = Len(recon.desiredRules)
          /\ dynamicRules = IF recon.called THEN after
                                            ELSE recon.existingRules
          /\ Range(dynamicRules) = Range(recon.desiredRules)

\* the table held a rule under an id the program never generates and a rule
\* with different content under the id of a desired rule; both were removed
\* and two rules were added
C33_Witness ==
  /\ recon.ran
  /\ \E i \in DOMAIN recon.existingRules :
       recon.existingRules[i].id = 7
  /\ \E i \in DOMAIN recon.existingRules :
       /\ recon.existingRules[i].id \in RuleIds(recon.desiredRules)
       /\ recon.existingRules[i] \notin Range(recon.desiredRules)
  /\ Len(recon.removeRuleIds) = 2
  /\ Len(recon.addRules) = 2
  /\ Range(dynamicRules) = Range(recon.desiredRules)


(* ------------------------------------------------------------------ *)
(* The rule table and the persisted configuration                       *)
(* ------------------------------------------------------------------ *)

\* no handler of the popup or of the worker is between its first and its
\* last step
NoHandlerRunning ==
  /\ save.pc \in {"idle", "done"}
  /\ bg.pc \in {"idle", "done"}

\* the rules updateRules would compile from what storage holds
CompiledFromStorage ==
  DesiredRules(storage.headers, storage.domains, storage.enabled,
               storage.domainMatchMode)

\* C34: when saves, alarm callbacks, browser starts and installs run one
\* after the other and no service call fails, then between handlers the
\* rule table holds exactly the rules compiled from the persisted headers,
\* domains, match mode and enabled flag.
C34_TableMatchesPersistedConfiguration ==
  NoHandlerRunning
    => /\ Range(dynamicRules) = Range(CompiledFromStorage)
       /\ Len(dynamicRules) = Len(CompiledFromStorage)

\* a save of two domains, b.io first, made after the clock has advanced,
\* has returned and two rules are installed
C34_Witness ==
  /\ NoHandlerRunning
  /\ save.pc = "done"
  /\ storage.domains = <<DomainB, DomainA>>
  /\ Len(dynamicRules) = 2
  /\ storage.enabled
  /\ now > MS_PER_MINUTE


(* ------------------------------------------------------------------ *)
(* What the expiry mechanism disables                                   *)
(* ------------------------------------------------------------------ *)

\* the step in which disableExtensionByExpiry's setStorage takes effect
DisableWriteStep == bg.pc = "disable_set" /\ bg'.pc = "disable_get"

\* C35: disableExtensionByExpiry writes enabled = false only when the
\* persisted temporaryUntil is an instant at or before the current time; a
\* configuration persisted with no expiry or with a later one is not
\* disabled.
C35_OnlyExpiredConfigurationsDisabled ==
  [][DisableWriteStep
       => /\ storage.temporaryUntil # NullInstant
          /\ storage.temporaryUntil <= now]_vars


(* ------------------------------------------------------------------ *)
(* The expiry instant and the enabled switch in storage                 *)
(* ------------------------------------------------------------------ *)

\* a storage write that sets an expiry instant sets enabled = true with it,
\* and one that sets enabled = false sets temporaryUntil = null with it
WritesSwitchAndInstantTogether(payload) ==
  /\ "temporaryUntil" \in payload.keys /\ payload.temporaryUntil # NullInstant
       => "enabled" \in payload.keys /\ payload.enabled
  /\ "enabled" \in payload.keys /\ ~payload.enabled
       => "temporaryUntil" \in payload.keys
            /\ payload.temporaryUntil = NullInstant

\* C36: in every state, also while handlers of the popup and of the worker
\* overlap, a persisted expiry instant goes with persisted enabled = true,
\* and every storage write about to be made (by saveConfig, by
\* disableExtensionByExpiry, by initializeStorage) writes the two fields
\* together in that way.
C36_InstantImpliesEnabled ==
  /\ storage.temporaryUntil # NullInstant => storage.enabled
  /\ save.pc = "storageSet" => WritesSwitchAndInstantTogether(save.payload)
  /\ bg.pc = "disable_set" => WritesSwitchAndInstantTogether(DisablePayload)
  /\ bg.pc = "init_set" => WritesSwitchAndInstantTogether(bg.payload)

\* initializeStorage has read an enabled configuration with its instant and
\* is about to write it back, while a save of a disabled form has persisted
\* in between and is still running
C36_Witness ==
  /\ bg.pc = "init_set"
  /\ bg.payload.temporaryUntil # NullInstant
  /\ bg.payload.enabled
  /\ ~storage.enabled
  /\ storage.temporaryUntil = NullInstant
  /\ save.pc = "getDynamicRules"


(* ------------------------------------------------------------------ *)
(* What the alarm callback leaves in storage                            *)
(* ------------------------------------------------------------------ *)

\* the alarm callback has run to its end
AlarmCallbackDone ==
  bg.trigger = "alarm" /\ bg.pc = "done" /\ bg.outcome = "fired"

\* C37: when the alarm callback has run, the persisted headers, domains
\* and match mode are what they were when it started; only enabled (now
\* false) and temporaryUntil (now null) were written, so the rules compiled
\* after switching enabled on again are those of the configuration before.
C37_FireKeepsHeadersDomainsMode ==
  AlarmCallbackDone
    => /\ storage.headers = bg.pre.storage.headers
       /\ storage.domains = bg.pre.storage.domains
       /\ storage.domainMatchMode = bg.pre.storage.domainMatchMode
       /\ storage.keys = bg.pre.storage.keys
       /\ ~storage.enabled
       /\ storage.temporaryUntil = NullInstant
       /\ DesiredRules(storage.headers, storage.domains, TRUE,
                       storage.domainMatchMode)
            = DesiredRules(bg.pre.storage.headers, bg.pre.storage.domains,
                           TRUE, bg.pre.storage.domainMatchMode)

\* the callback disabled a configuration with a header and two domains
C37_Witness ==
  /\ AlarmCallbackDone
  /\ bg.pre.storage.enabled
  /\ bg.pre.storage.temporaryUntil # NullInstant
  /\ Len(storage.headers) = 1
  /\ Len(storage.domains) = 2
  /\ Len(bg.pre.dynamicRules) = 2
  /\ dynamicRules = <<>>


(* ------------------------------------------------------------------ *)
(* Conditions within one compiled rule set                              *)
(* ------------------------------------------------------------------ *)

DefaultArea ==
  [enabled |-> TRUE, headers |-> <<>>, domains |-> <<>>,
   domainMatchMode |-> "include_subdomains", temporaryUntil |-> NullInstant]

\* the key held a value of its type: a boolean, a list, one of the three
\* modes, a number
HeldWellTyped(area, k) ==
  /\ Holds(area, k)
  /\ k = "domainMatchMode" => area.domainMatchMode \in MatchModes

\* initializeStorage has written and its callback has not yet read
InitializeStorageWrote == bg.trigger = "install" /\ bg.pc = "sync_get"

\* C39: after the write of initializeStorage every key is present and
\* well-typed; a key that held a well-typed value holds it still, every
\* other key holds its default; and a second run writes nothing new.
C39_InitializeStorageKeepsOrDefaults ==
  InitializeStorageWrote
    => LET before == bg.pre.storage
       IN /\ storage.keys = StorageKeys
          /\ \A k \in StorageKeys :
               /\ storage.mistyped[k] = "no"
               /\ storage[k] = IF HeldWellTyped(before, k)
                                 THEN before[k] ELSE DefaultArea[k]
          /\ StorageWrite(storage, InitialState(storage)) = storage

\* the same for the keys other than enabled, and for enabled when it was
\* missing, null or a boolean
InitializeStorageKeepsOrDefaultsButEnabled ==
  InitializeStorageWrote
    => LET before == bg.pre.storage
       IN /\ storage.keys = StorageKeys
          /\ \A k \in StorageKeys :
               k # "enabled" \/ before.mistyped[k] # "string"
                 => /\ storage.mistyped[k] = "no"
                    /\ storage[k] = IF HeldWellTyped(before, k)
                                      THEN before[k] ELSE DefaultArea[k]
          /\ StorageWrite(storage, InitialState(storage)) = storage

====
